---- MODULE Spec2Model ----
(***************************************************************************)
(* The rental transaction engine of app.py: the cars and rentals tables,   *)
(* and one action per request handler that writes them.                    *)
(*                                                                         *)
(* Money is held in paise (hundredths of a rupee), so the code's           *)
(* round(x, 2) is rounding to a whole number of paise.  Times are minutes. *)
(* A nullable column holds Null (<<>>) or Some(v) (<<v>>).                 *)
(***************************************************************************)
EXTENDS Integers, Sequences, FiniteSets, TLC

\* ------------------------------------------------------------------ bounds

\* The rentals table holds at most this many rows (rent_car is refused beyond).
MaxRentals == 2

\* owner_extend_rental is not taken once end_time would pass this many hours.
MaxEndHours == 2

\* -------------------------------------------------------- program constants

\* COMPANY_COMMISSION_RATE = 0.10 and OWNER_INITIAL_PAYOUT_RATE = 0.10, in percent.
COMPANY_COMMISSION_RATE == 10
OWNER_INITIAL_PAYOUT_RATE == 10
HOST_SERVICE_FEE_RATE == 40

\* timedelta(hours=1) and timedelta(hours=4), in minutes.
OneHour == 60
DefaultWindow == 240

\* ------------------------------------------------------------- the actors

\* users.id and users.role; user 1 lists the cars, user 2 only rents, user 3
\* may do both and has listed no car.  None of them is an administrator.
Users == {1, 2, 3}
UserRole == [u \in Users |-> CASE u = 1 -> "owner" [] u = 2 -> "renter" [] u = 3 -> "both"]

\* role_required(*allowed): the roles it lets through to the handler.
RoleAdmits(actor, allowed) == UserRole[actor] = "both" \/ UserRole[actor] \in allowed

\* cars.id, cars.owner_id, cars.rate_per_hour and cars.daily_rate (paise).
Cars == {1}
CarOwner == [c \in Cars |-> 1]
RatePerHour == [c \in Cars |-> 10000]
DailyRate == [c \in Cars |-> 0]

\* --------------------------------------------------------- request inputs

\* naive_utcnow() at the time of a request.
Instants == {600}
\* (start, end) of a booking window, in minutes.
Windows == {<<0, 60>>}
\* The promo_code field of the booking form.
PromoInputs == {"", " zoom10 "}
\* delivery_type and delivery_fee of the booking form (after parse_float).
DeliveryInputs == {<<"pickup", 0>>, <<"delivery", 5000>>}
\* The counter_amount field: "bad" is text float() rejects, else paise.
CounterInputs == {"bad", "-5000", "0", "7", "3000"}
\* extra_hours of the extend form (after int()).
ExtraHourInputs == {0, 1}
\* The same fields for the runs that follow two bookings at once.
FewPromoInputs == {""}
FewDeliveryInputs == {<<"delivery", 5000>>}
FewCounterInputs == {"bad", "3000"}
FewExtraHourInputs == {0}
\* The arguments of calculate_pricing where it is followed on its own: hourly
\* and daily rates in paise (a daily rate of 0 is one the owner never set),
\* windows in minutes, promo codes as typed.
FareHourlyRates == {0, 10000, 10032}
FareDailyRates == {0, 15000, 200000}
FareWindows == {<<0, 30>>, <<0, 60>>, <<0, 61>>, <<60, 0>>, <<0, 1440>>, <<0, 1800>>,
                <<0, 2940>>}
FarePromoInputs == {"", " zoom10 ", "firstdrive", "WEEKEND15", "UNKNOWNCODE"}
\* payment_status of the admin override form.
AdminStatusInputs == {"pending", "awaiting_payment", "paid", "refunded"}
RenterActions == {"accept_counter", "decline_counter", "accept"}
OwnerActions == {"accept", "reject", "counter", "accept_counter"}
\* The reason field of the reject form.
Reasons == {"busy", " busy "}
Comments == {"note"}
Channels == {"upi/netbanking"}

\* ----------------------------------------------------------------- helpers

Null == <<>>
Some(v) == <<v>>
IsNull(v) == v = <<>>
Val(v) == v[1]

Max(a, b) == IF a >= b THEN a ELSE b

\* Min with the first argument never taken.
MinNeverFirst(a, b) == b

Min(a, b) == IF a <= b THEN a ELSE b

\* round(n / d) to the nearest integer, a tie going to the even neighbour (d > 0).
\* With n in paise times a percentage and d = 100 this is round(amount * rate, 2).
RoundDiv(n, d) ==
    LET q == n \div d
        m == n % d
    IN  IF 2 * m < d THEN q
        ELSE IF 2 * m > d THEN q + 1
        ELSE IF q % 2 = 0 THEN q ELSE q + 1

\* ParseFloat with text that is not a number read as zero.
ParseFloatUnparsedAsZero(text) ==
    CASE text = "-5000" -> Some(-5000)
      [] text = "7" -> Some(7)
      [] text = "3000" -> Some(3000)
      [] text = "30000" -> Some(30000)
      [] OTHER -> Some(0)

\* float() of a form field: Null when the text is not a number (ValueError).
ParseFloat(text) ==
    CASE text = "-5000" -> Some(-5000)
      [] text = "0" -> Some(0)
      [] text = "7" -> Some(7)
      [] text = "3000" -> Some(3000)
      [] text = "30000" -> Some(30000)
      [] OTHER -> Null

\* PROMO_CODES, in percent; 0 for a code that is not in the table.
PromoPercent(code) ==
    CASE code = "ZOOM10" -> 10
      [] code = "WEEKEND15" -> 15
      [] code = "FIRSTDRIVE" -> 20
      [] OTHER -> 0

\* NormalizePromo with the code looked up as typed.
NormalizePromoAsTyped(code) == code

\* promo_code.upper().strip() for the inputs used here.
NormalizePromo(code) ==
    CASE code = " zoom10 " -> "ZOOM10"
      [] code = "firstdrive" -> "FIRSTDRIVE"
      [] OTHER -> code

\* text.strip() for the texts used here.
Strip(text) == IF text = " busy " THEN "busy" ELSE text

CeilDiv(n, d) == (n + d - 1) \div d

\* CalculatePricing with the hours of a partial day charged by the hour,
\* without the cap at the price of a day.
CalculatePricingUncappedHours(rate_per_hour, daily_rate, start, end, promo_code) ==
    LET end2 == IF end <= start THEN start + DefaultWindow ELSE end
        minutes == Max(60, end2 - start)
        effective_daily == IF daily_rate # 0 THEN daily_rate ELSE rate_per_hour * 24
        full_days == minutes \div 1440
        remaining_hours == CeilDiv(minutes - full_days * 1440, 60)
        base_total == full_days * effective_daily + remaining_hours * rate_per_hour
        code == NormalizePromo(promo_code)
        known == promo_code # "" /\ PromoPercent(code) # 0
        discount == IF known THEN RoundDiv(base_total * PromoPercent(code), 100) ELSE 0
    IN  [base_amount |-> base_total,
         discount |-> discount,
         total |-> Max(0, base_total - discount),
         promo_applied |-> IF known THEN code ELSE ""]

\* calculate_pricing: rates in paise, start and end in minutes.
CalculatePricing(rate_per_hour, daily_rate, start, end, promo_code) ==
    LET end2 == IF end <= start THEN start + DefaultWindow ELSE end
        minutes == Max(60, end2 - start)
        effective_daily == IF daily_rate # 0 THEN daily_rate ELSE rate_per_hour * 24
        full_days == minutes \div 1440
        remaining_hours == CeilDiv(minutes - full_days * 1440, 60)
        base_total == full_days * effective_daily
                      + (IF remaining_hours # 0
                         THEN Min(effective_daily, remaining_hours * rate_per_hour)
                         ELSE 0)
        code == NormalizePromo(promo_code)
        known == promo_code # "" /\ PromoPercent(code) # 0
        discount == IF known THEN RoundDiv(base_total * PromoPercent(code), 100) ELSE 0
    IN  [base_amount |-> base_total,
         discount |-> discount,
         total |-> Max(0, base_total - discount),
         promo_applied |-> IF known THEN code ELSE ""]

\* ------------------------------------------------------------------- state

VARIABLES
    cars,       \* cars.id -> [is_available, is_active]
    rentals,    \* the rentals table, rentals.id = index
    inflight    \* requests under way: booking requests that have read the car
                \* and not yet written, requests on a booking between their
                \* SELECT and their UPDATE, a quote being priced, a search
                \* being answered

vars == <<cars, rentals, inflight>>

RentalIds == 1..Len(rentals)

Init ==
    /\ cars = [c \in Cars |-> [is_available |-> TRUE, is_active |-> TRUE]]
    /\ rentals = <<>>
    /\ inflight = <<>>


\* ------------------------------------------------------------- rent_car

\* The row INSERT INTO rentals writes: the listed columns, the rest at the
\* schema's defaults.
NewRental(car_id, renter_id, delivery, window, promo_code) ==
    LET pricing == CalculatePricing(RatePerHour[car_id],
                                    IF DailyRate[car_id] # 0 THEN DailyRate[car_id]
                                    ELSE RatePerHour[car_id] * 24,
                                    window[1], window[2], promo_code)
        delivery_fee == IF delivery[1] = "delivery" THEN Max(0, delivery[2]) ELSE 0
    IN  [car_id |-> car_id,
         renter_id |-> renter_id,
         status |-> "booked",
         end_time |-> IF window[2] <= window[1] THEN window[1] + DefaultWindow
                      ELSE window[2],
         discount_amount |-> pricing.discount,
         rental_amount |-> pricing.total,
         delivery_fee |-> delivery_fee,
         total_amount |-> pricing.total + delivery_fee,
         owner_response |-> "pending",
         counter_amount |-> Null,
         counter_comment |-> "",
         counter_used |-> FALSE,
         payment_status |-> "pending",
         payment_due_at |-> Null,
         payment_channel |-> "manual",
         company_commission_amount |-> 0,
         owner_payout_amount |-> 0,
         owner_payout_status |-> "pending",
         owner_payout_released_at |-> Null,
         owner_initial_payout_amount |-> 0,
         owner_initial_payout_status |-> "pending",
         owner_initial_payout_released_at |-> Null,
         owner_final_payout_amount |-> 0,
         owner_final_payout_status |-> "pending",
         owner_final_payout_released_at |-> Null,
         renter_response |-> "",
         cancel_reason |-> ""]

\* The two writes of rent_car: the INSERT and the unconditional
\* UPDATE cars SET is_available = 0.
InsertRental(row) ==
    /\ rentals' = Append(rentals, row)
    /\ cars' = [cars EXCEPT ![row.car_id].is_available = FALSE]

\* rent_car run as one step: the read of the car, then the writes.
RentCar(actor, car_id, delivery, window, promo_code) ==
    /\ Len(rentals) + Len(inflight) < MaxRentals
    /\ IF ~RoleAdmits(actor, {"renter", "owner"}) \/ ~cars[car_id].is_available
       THEN UNCHANGED vars
       ELSE /\ InsertRental(NewRental(car_id, actor, delivery, window, promo_code))
            /\ UNCHANGED inflight

\* rent_car as two steps of a request that runs beside others: the SELECT of
\* the car and its is_available test ...
RentCarRead(actor, car_id, delivery, window, promo_code) ==
    /\ Len(rentals) + Len(inflight) < MaxRentals
    /\ IF ~RoleAdmits(actor, {"renter", "owner"}) \/ ~cars[car_id].is_available
       THEN UNCHANGED vars
       ELSE /\ inflight' = Append(inflight,
                                   NewRental(car_id, actor, delivery, window, promo_code))
            /\ UNCHANGED <<cars, rentals>>

\* ... and, later, the INSERT, the UPDATE and the commit.
RentCarWrite(i) ==
    /\ i \in 1..Len(inflight)
    /\ InsertRental(inflight[i])
    /\ inflight' = [k \in 1..(Len(inflight) - 1) |->
                        IF k < i THEN inflight[k] ELSE inflight[k + 1]]

\* ------------------------------------------- owner_toggle_availability

OwnerToggleAvailability(actor, car_id) ==
    IF ~RoleAdmits(actor, {"owner"}) \/ CarOwner[car_id] # actor
    THEN UNCHANGED vars
    ELSE /\ cars' = [cars EXCEPT ![car_id].is_available = ~cars[car_id].is_available]
         /\ UNCHANGED <<rentals, inflight>>


\* ------------------------------------------------- owner_respond_rental

\* OwnsRental with the SELECT not restricted to the actor's own cars.
OwnsRentalOfAnyCar(actor, id) ==
    /\ RoleAdmits(actor, {"owner"})
    /\ id \in RentalIds

\* The rental row the handler's SELECT returns: the row exists and its car
\* belongs to the actor (role_required("owner") has let the actor through).
OwnsRental(actor, id) ==
    /\ RoleAdmits(actor, {"owner"})
    /\ id \in RentalIds
    /\ CarOwner[rentals[id].car_id] = actor

\* The three branches of owner_respond_rental: the test of each ...
AcceptApplies(action, rental) ==
    action = "accept" /\ rental.owner_response \in {"pending", "counter"}

\* RejectApplies with the reject branch also taken after a counter-offer.
RejectAppliesAfterCounter(action, rental) ==
    action = "reject" /\ rental.owner_response \in {"pending", "counter"}

RejectApplies(action, rental) ==
    action = "reject" /\ rental.owner_response = "pending"

\* CounterApplies without the counter_used test, a counter-offer being open
\* to replacement.
CounterAppliesAgain(action, rental) ==
    /\ action = "counter"
    /\ rental.owner_response \in {"pending", "counter"}

CounterApplies(action, rental) ==
    /\ action = "counter"
    /\ rental.owner_response = "pending"
    /\ rental.counter_used = FALSE

\* ... and the row its UPDATE leaves.
\* OwnerAcceptRow with the clean slate also clearing counter_used.
OwnerAcceptRowClearingCounter(rental, now) ==
    [rental EXCEPT !.owner_response = "accepted",
                   !.counter_used = FALSE,
                   !.payment_status = "awaiting_payment",
                   !.payment_due_at = Some(now + OneHour),
                   !.payment_channel = "manual",
                   !.company_commission_amount = 0,
                   !.owner_payout_amount = 0,
                   !.owner_payout_status = "pending",
                   !.owner_payout_released_at = Null,
                   !.owner_initial_payout_amount = 0,
                   !.owner_initial_payout_status = "pending",
                   !.owner_initial_payout_released_at = Null,
                   !.owner_final_payout_amount = 0,
                   !.owner_final_payout_status = "pending",
                   !.owner_final_payout_released_at = Null]

\* OwnerAcceptRow with the two parts of the payout left as they were.
OwnerAcceptRowKeepingParts(rental, now) ==
    [rental EXCEPT !.owner_response = "accepted",
                   !.payment_status = "awaiting_payment",
                   !.payment_due_at = Some(now + OneHour),
                   !.payment_channel = "manual",
                   !.company_commission_amount = 0,
                   !.owner_payout_amount = 0,
                   !.owner_payout_status = "pending",
                   !.owner_payout_released_at = Null]

OwnerAcceptRow(rental, now) ==
    [rental EXCEPT !.owner_response = "accepted",
                   !.payment_status = "awaiting_payment",
                   !.payment_due_at = Some(now + OneHour),
                   !.payment_channel = "manual",
                   !.company_commission_amount = 0,
                   !.owner_payout_amount = 0,
                   !.owner_payout_status = "pending",
                   !.owner_payout_released_at = Null,
                   !.owner_initial_payout_amount = 0,
                   !.owner_initial_payout_status = "pending",
                   !.owner_initial_payout_released_at = Null,
                   !.owner_final_payout_amount = 0,
                   !.owner_final_payout_status = "pending",
                   !.owner_final_payout_released_at = Null]

\* OwnerRejectRow with the reason left out of the UPDATE.
OwnerRejectRowWithoutReason(rental, reason) ==
    [rental EXCEPT !.owner_response = "rejected",
                   !.status = "cancelled"]

OwnerRejectRow(rental, reason) ==
    [rental EXCEPT !.owner_response = "rejected",
                   !.status = "cancelled",
                   !.cancel_reason = Strip(reason)]

OwnerCounterRow(rental, counter_amount, comment) ==
    [rental EXCEPT !.owner_response = "counter",
                   !.counter_amount = Some(counter_amount),
                   !.counter_comment = Strip(comment),
                   !.counter_used = TRUE]

OwnerRespondRental(actor, id, action, counter_text, comment, reason, now) ==
    IF ~OwnsRental(actor, id)
    THEN UNCHANGED vars
    ELSE LET rental == rentals[id] IN
         IF AcceptApplies(action, rental)
         THEN /\ rentals' = [rentals EXCEPT ![id] = OwnerAcceptRow(rental, now)]
              /\ UNCHANGED <<cars, inflight>>
         ELSE IF RejectApplies(action, rental)
         THEN /\ rentals' = [rentals EXCEPT ![id] = OwnerRejectRow(rental, reason)]
              /\ cars' = [cars EXCEPT ![rental.car_id].is_available = TRUE]
              /\ UNCHANGED inflight
         ELSE IF CounterApplies(action, rental)
         THEN IF IsNull(ParseFloat(counter_text))
              THEN UNCHANGED vars
              ELSE /\ rentals' = [rentals EXCEPT ![id] =
                         OwnerCounterRow(rental, Val(ParseFloat(counter_text)), comment)]
                   /\ UNCHANGED <<cars, inflight>>
         ELSE UNCHANGED vars

\* ------------------------------------------------ renter_respond_rental

\* The rental row a renter-side SELECT returns: the row exists and the actor
\* is its renter.
RentsRental(actor, id) ==
    /\ RoleAdmits(actor, {"renter", "owner"})
    /\ id \in RentalIds
    /\ rentals[id].renter_id = actor

\* The two branches of renter_respond_rental: the test of each ...
AcceptCounterApplies(action, rental) ==
    action = "accept_counter" /\ rental.owner_response = "counter"

DeclineCounterApplies(action, rental) ==
    action = "decline_counter" /\ rental.owner_response = "counter"

\* ... and the row its UPDATE leaves.  counter_amount or total_amount: a NULL
\* or zero counter amount gives the total.
AcceptCounterRow(rental, now) ==
    LET counter_amount ==
            IF IsNull(rental.counter_amount) \/ Val(rental.counter_amount) = 0
            THEN rental.total_amount
            ELSE Val(rental.counter_amount)
        new_total == counter_amount
        base_rental_updated == Max(0, new_total - rental.delivery_fee)
    IN  [rental EXCEPT !.owner_response = "accepted",
                       !.renter_response = "accepted",
                       !.total_amount = new_total,
                       !.rental_amount = base_rental_updated,
                       !.payment_status = "awaiting_payment",
                       !.payment_due_at = Some(now + OneHour),
                       !.payment_channel = "manual",
                       !.company_commission_amount = 0,
                       !.owner_payout_amount = 0,
                       !.owner_payout_status = "pending",
                       !.owner_payout_released_at = Null]

DeclineCounterRow(rental) ==
    [rental EXCEPT !.renter_response = "declined",
                   !.status = "cancelled",
                   !.cancel_reason = "Counter offer declined"]

RenterRespondRental(actor, id, action, now) ==
    IF ~RentsRental(actor, id)
    THEN UNCHANGED vars
    ELSE LET rental == rentals[id] IN
         IF AcceptCounterApplies(action, rental)
         THEN /\ rentals' = [rentals EXCEPT ![id] = AcceptCounterRow(rental, now)]
              /\ UNCHANGED <<cars, inflight>>
         ELSE IF DeclineCounterApplies(action, rental)
         THEN /\ rentals' = [rentals EXCEPT ![id] = DeclineCounterRow(rental)]
              /\ cars' = [cars EXCEPT ![rental.car_id].is_available = TRUE]
              /\ UNCHANGED inflight
         ELSE UNCHANGED vars

\* ---------------------------------------------- finalize_rental_payment

\* FinalizeSplit with the final payout taken from the total instead of from
\* the owner's net.
FinalizeSplitFinalFromTotal(total_amount) ==
    LET commission == RoundDiv(total_amount * COMPANY_COMMISSION_RATE, 100)
        owner_net == Max(0, total_amount - commission)
        initial_payout == IF owner_net <= 0 THEN 0
                          ELSE RoundDiv(owner_net * OWNER_INITIAL_PAYOUT_RATE, 100)
        final_payout == Max(0, total_amount - initial_payout)
    IN  [commission |-> commission,
         owner_net |-> owner_net,
         initial_payout |-> initial_payout,
         final_payout |-> final_payout]

\* The split finalize_rental_payment computes from total_amount.
FinalizeSplit(total_amount) ==
    LET commission == RoundDiv(total_amount * COMPANY_COMMISSION_RATE, 100)
        owner_net == Max(0, total_amount - commission)
        initial_payout == IF owner_net <= 0 THEN 0
                          ELSE RoundDiv(owner_net * OWNER_INITIAL_PAYOUT_RATE, 100)
        final_first == Max(0, owner_net - initial_payout)
        final_payout == IF initial_payout + final_first # owner_net
                        THEN Max(0, owner_net - initial_payout)
                        ELSE final_first
    IN  [commission |-> commission,
         owner_net |-> owner_net,
         initial_payout |-> initial_payout,
         final_payout |-> final_payout]

\* FinalizeRentalPayment with the payment deadline left in the row.
FinalizeRentalPaymentKeepingDueTime(rental, payment_channel, now) ==
    LET split == FinalizeSplit(rental.total_amount)
        initial_status == IF split.initial_payout > 0 THEN "paid" ELSE "not_required"
        initial_released_at == IF split.initial_payout > 0 THEN Some(now) ELSE Null
        final_status == IF split.final_payout > 0 THEN "pending" ELSE "not_required"
    IN  [rental EXCEPT !.payment_status = "paid",
                       !.payment_channel = payment_channel,
                       !.company_commission_amount = split.commission,
                       !.owner_payout_amount = split.owner_net,
                       !.owner_payout_status = final_status,
                       !.owner_payout_released_at = Null,
                       !.owner_initial_payout_amount = split.initial_payout,
                       !.owner_initial_payout_status = initial_status,
                       !.owner_initial_payout_released_at = initial_released_at,
                       !.owner_final_payout_amount = split.final_payout,
                       !.owner_final_payout_status = final_status,
                       !.owner_final_payout_released_at = Null,
                       !.renter_response = IF rental.renter_response = "" THEN "paid"
                                           ELSE rental.renter_response]

\* The row after finalize_rental_payment's UPDATE.
FinalizeRentalPayment(rental, payment_channel, now) ==
    LET split == FinalizeSplit(rental.total_amount)
        initial_status == IF split.initial_payout > 0 THEN "paid" ELSE "not_required"
        initial_released_at == IF split.initial_payout > 0 THEN Some(now) ELSE Null
        final_status == IF split.final_payout > 0 THEN "pending" ELSE "not_required"
    IN  [rental EXCEPT !.payment_status = "paid",
                       !.payment_channel = payment_channel,
                       !.company_commission_amount = split.commission,
                       !.owner_payout_amount = split.owner_net,
                       !.owner_payout_status = final_status,
                       !.owner_payout_released_at = Null,
                       !.owner_initial_payout_amount = split.initial_payout,
                       !.owner_initial_payout_status = initial_status,
                       !.owner_initial_payout_released_at = initial_released_at,
                       !.owner_final_payout_amount = split.final_payout,
                       !.owner_final_payout_status = final_status,
                       !.owner_final_payout_released_at = Null,
                       !.payment_due_at = Null,
                       !.renter_response = IF rental.renter_response = "" THEN "paid"
                                           ELSE rental.renter_response]

\* ------------------------------------------------ renter_confirm_payment

RenterConfirmPayment(actor, id, payment_channel, now) ==
    IF ~(RentsRental(actor, id) /\ rentals[id].owner_response = "accepted")
    THEN UNCHANGED vars
    ELSE /\ rentals' = [rentals EXCEPT ![id] =
               FinalizeRentalPayment(rentals[id], payment_channel, now)]
         /\ UNCHANGED <<cars, inflight>>

\* --------------------------------------------------------- cancel_rental

\* The row after cancel_rental's UPDATE.
CancelledRental(rental, now) ==
    [rental EXCEPT !.status = "cancelled",
                   !.end_time = now,
                   !.renter_response = "cancelled_by_renter"]

\* CancelRental without the status test that follows the SELECT.
CancelRentalInAnyStatus(actor, id, now) ==
    IF ~RentsRental(actor, id)
    THEN UNCHANGED vars
    ELSE /\ rentals' = [rentals EXCEPT ![id] = CancelledRental(rentals[id], now)]
         /\ cars' = [cars EXCEPT ![rentals[id].car_id].is_available = TRUE]
         /\ UNCHANGED inflight

CancelRental(actor, id, now) ==
    IF ~(RentsRental(actor, id) /\ rentals[id].status \in {"booked", "active"})
    THEN UNCHANGED vars
    ELSE /\ rentals' = [rentals EXCEPT ![id] = CancelledRental(rentals[id], now)]
         /\ cars' = [cars EXCEPT ![rentals[id].car_id].is_available = TRUE]
         /\ UNCHANGED inflight

\* ---------------------------------------------------- owner_start_rental

\* StartAllowed without the payment_status test that follows the SELECT.
\* StartAllowed without the owner_response condition of the SELECT.
StartAllowedUnanswered(actor, id) ==
    /\ OwnsRental(actor, id)
    /\ rentals[id].status = "booked"
    /\ rentals[id].payment_status = "paid"

StartAllowedUnpaid(actor, id) ==
    /\ OwnsRental(actor, id)
    /\ rentals[id].status = "booked"
    /\ rentals[id].owner_response = "accepted"

\* The test that lets owner_start_rental write: the WHERE clause of its SELECT
\* and the payment_status test after it.
StartAllowed(actor, id) ==
    /\ OwnsRental(actor, id)
    /\ rentals[id].status = "booked"
    /\ rentals[id].owner_response = "accepted"
    /\ rentals[id].payment_status = "paid"

OwnerStartRental(actor, id) ==
    IF ~StartAllowed(actor, id)
    THEN UNCHANGED vars
    ELSE /\ rentals' = [rentals EXCEPT ![id].status = "active"]
         /\ UNCHANGED <<cars, inflight>>


\* --------------------------------------------------- owner_extend_rental

\* OwnerExtendRental with the stored split carried over on a paid booking
\* instead of being cleared.
OwnerExtendRentalKeepingSplit(actor, id, extra_hours, now) ==
    IF extra_hours <= 0
    THEN UNCHANGED vars
    ELSE IF ~(OwnsRental(actor, id) /\ rentals[id].status \in {"booked", "active"})
    THEN UNCHANGED vars
    ELSE LET rental == rentals[id]
             additional_amount == RatePerHour[rental.car_id] * extra_hours
             new_rental_amount == rental.rental_amount + additional_amount
             new_total == new_rental_amount + rental.delivery_fee
             was_paid == rental.payment_status = "paid"
             new_status == IF was_paid THEN "awaiting_payment" ELSE rental.payment_status
             new_due == IF was_paid THEN Some(now + OneHour) ELSE rental.payment_due_at
             new_end == rental.end_time + extra_hours * 60
         IN  /\ new_end <= MaxEndHours * 60
             /\ rentals' = [rentals EXCEPT ![id] =
                    [rental EXCEPT !.end_time = new_end,
                                   !.rental_amount = new_rental_amount,
                                   !.total_amount = new_total,
                                   !.payment_status = new_status,
                                   !.payment_due_at = new_due]]
             /\ UNCHANGED <<cars, inflight>>

\* The row after owner_extend_rental's UPDATE.
ExtendedRental(rental, extra_hours, now) ==
    LET additional_amount == RatePerHour[rental.car_id] * extra_hours
        new_rental_amount == rental.rental_amount + additional_amount
        new_total == new_rental_amount + rental.delivery_fee
        was_paid == rental.payment_status = "paid"
        new_status == IF was_paid THEN "awaiting_payment" ELSE rental.payment_status
        new_due == IF was_paid THEN Some(now + OneHour) ELSE rental.payment_due_at
        new_end == rental.end_time + extra_hours * 60
        extended == [rental EXCEPT !.end_time = new_end,
                                   !.rental_amount = new_rental_amount,
                                   !.total_amount = new_total,
                                   !.payment_status = new_status,
                                   !.payment_due_at = new_due]
    IN  IF new_status = "awaiting_payment"
        THEN [extended EXCEPT !.payment_channel = "manual",
                              !.company_commission_amount = 0,
                              !.owner_payout_amount = 0,
                              !.owner_payout_status = "pending",
                              !.owner_payout_released_at = Null,
                              !.owner_initial_payout_amount = 0,
                              !.owner_initial_payout_status = "pending",
                              !.owner_initial_payout_released_at = Null,
                              !.owner_final_payout_amount = 0,
                              !.owner_final_payout_status = "pending",
                              !.owner_final_payout_released_at = Null]
        ELSE extended

OwnerExtendRental(actor, id, extra_hours, now) ==
    IF extra_hours <= 0
    THEN UNCHANGED vars
    ELSE IF ~(OwnsRental(actor, id) /\ rentals[id].status \in {"booked", "active"})
    THEN UNCHANGED vars
    ELSE /\ ExtendedRental(rentals[id], extra_hours, now).end_time <= MaxEndHours * 60
         /\ rentals' = [rentals EXCEPT ![id] =
                ExtendedRental(rentals[id], extra_hours, now)]
         /\ UNCHANGED <<cars, inflight>>

\* ------------------------------------------------- owner_complete_rental

\* CompleteSplit with no commission withheld.
CompleteSplitWithoutCommission(total_amount) ==
    LET owner_net == Max(0, total_amount)
        initial_payout == IF owner_net <= 0 THEN 0
                          ELSE RoundDiv(owner_net * OWNER_INITIAL_PAYOUT_RATE, 100)
    IN  [commission |-> 0,
         owner_net |-> owner_net,
         initial_payout |-> initial_payout,
         final_payout |-> Max(0, owner_net - initial_payout)]

\* The split owner_complete_rental computes when payment was never confirmed.
CompleteSplit(total_amount) ==
    LET commission == RoundDiv(total_amount * COMPANY_COMMISSION_RATE, 100)
        owner_net == Max(0, total_amount - commission)
        initial_payout == IF owner_net <= 0 THEN 0
                          ELSE RoundDiv(owner_net * OWNER_INITIAL_PAYOUT_RATE, 100)
        final_payout == Max(0, owner_net - initial_payout)
    IN  [commission |-> commission,
         owner_net |-> owner_net,
         initial_payout |-> initial_payout,
         final_payout |-> final_payout]

\* The row after owner_complete_rental's UPDATE.
CompletedRental(rental, now) ==
    LET unpaid == rental.payment_status # "paid"
        split == CompleteSplit(rental.total_amount)
        commission == IF unpaid THEN split.commission
                      ELSE rental.company_commission_amount
        owner_net == IF unpaid THEN split.owner_net ELSE rental.owner_payout_amount
        initial_payout == IF unpaid THEN split.initial_payout
                          ELSE rental.owner_initial_payout_amount
        final_payout == IF unpaid THEN split.final_payout
                        ELSE rental.owner_final_payout_amount
        initial_status == IF unpaid
                          THEN (IF initial_payout > 0 THEN "paid" ELSE "not_required")
                          ELSE rental.owner_initial_payout_status
        initial_released == IF unpaid
                            THEN (IF initial_payout > 0 THEN Some(now) ELSE Null)
                            ELSE rental.owner_initial_payout_released_at
        \* final_released and payout_released_at as the unpaid branch leaves them
        final_released_1 == IF unpaid
                            THEN (IF final_payout = 0 THEN Some(now) ELSE Null)
                            ELSE rental.owner_final_payout_released_at
        payout_released_1 == IF unpaid THEN final_released_1
                             ELSE rental.owner_payout_released_at
        final_status == IF final_payout > 0 THEN "paid" ELSE "not_required"
        final_released == IF final_payout > 0 THEN Some(now)
                          ELSE IF IsNull(final_released_1) THEN Some(now)
                          ELSE final_released_1
        payout_released_at == IF final_payout > 0 THEN Some(now)
                              ELSE IF IsNull(payout_released_1) THEN Some(now)
                              ELSE payout_released_1
    IN  [rental EXCEPT !.status = "completed",
                       !.end_time = now,
                       !.payment_status = "paid",
                       !.company_commission_amount = commission,
                       !.owner_payout_amount = owner_net,
                       !.owner_payout_status = final_status,
                       !.owner_payout_released_at = payout_released_at,
                       !.owner_initial_payout_amount = initial_payout,
                       !.owner_initial_payout_status = initial_status,
                       !.owner_initial_payout_released_at = initial_released,
                       !.owner_final_payout_amount = final_payout,
                       !.owner_final_payout_status = final_status,
                       !.owner_final_payout_released_at = final_released]

OwnerCompleteRental(actor, id, now) ==
    IF ~(OwnsRental(actor, id) /\ rentals[id].status \in {"booked", "active"})
    THEN UNCHANGED vars
    ELSE /\ rentals' = [rentals EXCEPT ![id] = CompletedRental(rentals[id], now)]
         /\ cars' = [cars EXCEPT ![rentals[id].car_id].is_available = TRUE]
         /\ UNCHANGED inflight

\* -------------------------------------------------- admin_update_payment

\* The split admin_update_payment computes on an override to paid.
\* AdminSplit with the initial part taken from the total, not the owner payout.
AdminSplitInitialFromTotal(total_amount) ==
    LET commission == RoundDiv(total_amount * COMPANY_COMMISSION_RATE, 100)
        owner_payout == Max(0, total_amount - commission)
        initial_amount == IF owner_payout <= 0 THEN 0
                          ELSE RoundDiv(total_amount * OWNER_INITIAL_PAYOUT_RATE, 100)
    IN  [commission |-> commission,
         owner_net |-> owner_payout,
         initial_payout |-> initial_amount,
         final_payout |-> Max(0, owner_payout - initial_amount)]

AdminSplit(total_amount) ==
    LET commission == RoundDiv(total_amount * COMPANY_COMMISSION_RATE, 100)
        owner_payout == Max(0, total_amount - commission)
        initial_amount == IF owner_payout <= 0 THEN 0
                          ELSE RoundDiv(owner_payout * OWNER_INITIAL_PAYOUT_RATE, 100)
        final_amount == Max(0, owner_payout - initial_amount)
    IN  [commission |-> commission,
         owner_net |-> owner_payout,
         initial_payout |-> initial_amount,
         final_payout |-> final_amount]

\* AdminUpdatePayment with an override away from paid changing payment_status
\* alone.
AdminUpdatePaymentKeepingSplit(id, new_status, now) ==
    IF new_status \notin {"pending", "awaiting_payment", "paid"}
    THEN UNCHANGED vars
    ELSE IF id \notin RentalIds
    THEN UNCHANGED vars
    ELSE LET rental == rentals[id]
             split == AdminSplit(rental.total_amount)
             owner_status == IF split.final_payout > 0 THEN "pending" ELSE "not_required"
         IN  /\ rentals' = [rentals EXCEPT ![id] =
                    IF new_status = "paid"
                    THEN [rental EXCEPT
                            !.payment_status = new_status,
                            !.company_commission_amount = split.commission,
                            !.owner_payout_amount = split.owner_net,
                            !.owner_payout_status = owner_status,
                            !.owner_payout_released_at = Null,
                            !.owner_initial_payout_amount = split.initial_payout,
                            !.owner_initial_payout_status =
                                IF split.initial_payout > 0 THEN "paid" ELSE "not_required",
                            !.owner_initial_payout_released_at =
                                IF split.initial_payout > 0 THEN Some(now) ELSE Null,
                            !.owner_final_payout_amount = split.final_payout,
                            !.owner_final_payout_status = owner_status,
                            !.owner_final_payout_released_at = Null]
                    ELSE [rental EXCEPT !.payment_status = new_status]]
             /\ UNCHANGED <<cars, inflight>>

AdminUpdatePayment(id, new_status, now) ==
    IF new_status \notin {"pending", "awaiting_payment", "paid"}
    THEN UNCHANGED vars
    ELSE IF id \notin RentalIds
    THEN UNCHANGED vars
    ELSE LET rental == rentals[id]
             split == AdminSplit(rental.total_amount)
             owner_status == IF split.final_payout > 0 THEN "pending" ELSE "not_required"
         IN  /\ rentals' = [rentals EXCEPT ![id] =
                    IF new_status = "paid"
                    THEN [rental EXCEPT
                            !.payment_status = new_status,
                            !.company_commission_amount = split.commission,
                            !.owner_payout_amount = split.owner_net,
                            !.owner_payout_status = owner_status,
                            !.owner_payout_released_at = Null,
                            !.owner_initial_payout_amount = split.initial_payout,
                            !.owner_initial_payout_status =
                                IF split.initial_payout > 0 THEN "paid" ELSE "not_required",
                            !.owner_initial_payout_released_at =
                                IF split.initial_payout > 0 THEN Some(now) ELSE Null,
                            !.owner_final_payout_amount = split.final_payout,
                            !.owner_final_payout_status = owner_status,
                            !.owner_final_payout_released_at = Null]
                    ELSE [rental EXCEPT
                            !.payment_status = new_status,
                            !.company_commission_amount = 0,
                            !.owner_payout_amount = 0,
                            !.owner_payout_status = "pending",
                            !.owner_payout_released_at = Null,
                            !.owner_initial_payout_amount = 0,
                            !.owner_initial_payout_status = "pending",
                            !.owner_initial_payout_released_at = Null,
                            !.owner_final_payout_amount = 0,
                            !.owner_final_payout_status = "pending",
                            !.owner_final_payout_released_at = Null]]
             /\ UNCHANGED <<cars, inflight>>

\* -------------------------------------------- admin_release_owner_payout

AdminReleaseOwnerPayout(id, now) ==
    IF id \notin RentalIds
    THEN UNCHANGED vars
    ELSE IF rentals[id].payment_status # "paid"
    THEN UNCHANGED vars
    ELSE IF rentals[id].owner_payout_status = "paid"
    THEN UNCHANGED vars
    ELSE /\ rentals' = [rentals EXCEPT ![id] =
               [rentals[id] EXCEPT !.owner_payout_status = "paid",
                                   !.owner_payout_released_at = Some(now),
                                   !.owner_final_payout_status = "paid",
                                   !.owner_final_payout_released_at = Some(now)]]
         /\ UNCHANGED <<cars, inflight>>

\* ----------------------------------------------------- a quote on its own

\* A call of calculate_pricing that has its arguments and not yet its result.
QuoteRequest(rate_per_hour, daily_rate, window, promo_code) ==
    [rate_per_hour |-> rate_per_hour, daily_rate |-> daily_rate,
     start |-> window[1], end |-> window[2], promo_code |-> promo_code,
     pricing |-> Null]

\* The call returns.
Quote ==
    /\ Len(inflight) = 1
    /\ IsNull(inflight[1].pricing)
    /\ inflight' = <<[inflight[1] EXCEPT !.pricing =
                         Some(CalculatePricing(inflight[1].rate_per_hour,
                                               inflight[1].daily_rate,
                                               inflight[1].start, inflight[1].end,
                                               inflight[1].promo_code))]>>
    /\ UNCHANGED <<cars, rentals>>

\* ------------------------------------------------------------ the matcher

\* The listings a search runs over, by cars.id; the SELECT has no ORDER BY
\* and returns them in rowid order.
Listings == {1, 2, 3}

\* cars.latitude of each listing as metres north of a reference point; all
\* listings and all origins share one longitude.
ListingPosition == [c \in Listings |-> CASE c = 1 -> 0 [] c = 2 -> 4996 [] c = 3 -> 5004]

\* cars.rate_per_hour of each listing, in paise.
ListingRate == [c \in Listings |-> IF c = 3 THEN 20000 ELSE 10000]

\* The origins, the radii (metres; "0" parses to 0.0, which the callers pass
\* on as it is) and the price_max filters (none, or a rate in paise) of the
\* searches followed.
SearchOrigins == {0, 5000}
SearchRadii == {0, 5000, 10000}
SearchPriceMax == {Null, Some(15000)}

\* haversine_km between two points of one meridian: the arc between them.
HaversineAlongMeridian(lat1, lat2) == IF lat1 >= lat2 THEN lat1 - lat2 ELSE lat2 - lat1

\* round(distance, 2) of a distance in metres: hundredths of a kilometre.
DistanceKm(distance) == RoundDiv(distance, 10)

\* The EXISTS subquery: the listing has a booking in booked or active.
HasActiveRental(car_id, rows) ==
    \E id \in 1..Len(rows) :
        rows[id].car_id = car_id /\ rows[id].status \in {"booked", "active"}

ListingStatusByFlagOnly(car, has_active_rental) ==
    IF car.is_available THEN "Available" ELSE "Unavailable"

\* is_available = row["is_available"] and not row["has_active_rental"].
ListingStatus(car, has_active_rental) ==
    IF car.is_available /\ ~has_active_rental THEN "Available" ELSE "Unavailable"

\* The WHERE clause: cars.is_active = 1 and, when given, the price_max filter.
PassesFilters(car_id, listing_table, price_max) ==
    /\ listing_table[car_id].is_active
    /\ IsNull(price_max) \/ ListingRate[car_id] <= Val(price_max)

\* if radius_km and distance > radius_km: continue.
BeyondRadius(radius, distance) == radius # 0 /\ distance > radius

\* cars.sort(key = distance_km): stable, equal keys keep their row order.
RECURSIVE SortByDistanceKm(_)
SortByDistanceKm(found) ==
    IF Len(found) <= 1 THEN found
    ELSE LET sorted == SortByDistanceKm(SubSeq(found, 1, Len(found) - 1))
             last == found[Len(found)]
             k == Cardinality({i \in 1..Len(sorted) :
                                  sorted[i].distance_km <= last.distance_km})
         IN  SubSeq(sorted, 1, k) \o <<last>> \o SubSeq(sorted, k + 1, Len(sorted))

\* The loop over the rows, in row order.
RECURSIVE MatchedRows(_, _, _, _, _, _)
MatchedRows(car_id, listing_table, rows, latitude, radius, price_max) ==
    IF car_id \notin Listings THEN <<>>
    ELSE LET distance == HaversineAlongMeridian(latitude, ListingPosition[car_id])
             rest == MatchedRows(car_id + 1, listing_table, rows, latitude, radius, price_max)
         IN  IF ~PassesFilters(car_id, listing_table, price_max) \/ BeyondRadius(radius, distance)
             THEN rest
             ELSE <<[id |-> car_id,
                     distance_km |-> DistanceKm(distance),
                     status |-> ListingStatus(listing_table[car_id],
                                              HasActiveRental(car_id, rows))]>> \o rest

FetchAvailableCars(listing_table, rows, latitude, radius, price_max) ==
    SortByDistanceKm(MatchedRows(1, listing_table, rows, latitude, radius, price_max))

\* A call of fetch_available_cars that has its arguments and not yet its list.
SearchRequest(latitude, radius, price_max) ==
    [latitude |-> latitude, radius_km |-> radius, price_max |-> price_max,
     found |-> Null]

\* The call returns.
Search ==
    /\ Len(inflight) = 1
    /\ IsNull(inflight[1].found)
    /\ inflight' = <<[inflight[1] EXCEPT !.found =
                         Some(FetchAvailableCars(cars, rentals, inflight[1].latitude,
                                                 inflight[1].radius_km,
                                                 inflight[1].price_max))]>>
    /\ UNCHANGED <<cars, rentals>>

\* ---------------------------------------------- the owner's dashboard

\* The entry of rentals_data that build_owner_dashboard_context makes of a
\* row: the row's columns and the display fields derived from them.
OwnerDashboardRow(rental) ==
    LET total_amount == rental.total_amount
        stored_rental_amount == rental.rental_amount
        difference == stored_rental_amount + rental.delivery_fee - total_amount
        base_rental_amount ==
            IF stored_rental_amount <= 0 \/ difference > 1 \/ difference < -1
            THEN Max(0, total_amount - rental.delivery_fee)
            ELSE stored_rental_amount
        service_fee_amount == RoundDiv(total_amount * HOST_SERVICE_FEE_RATE, 100)
        owner_net == Max(0, total_amount - service_fee_amount)
        initial_paid == IF rental.owner_initial_payout_status = "paid"
                        THEN rental.owner_initial_payout_amount ELSE 0
        final_paid == IF rental.owner_final_payout_status = "paid"
                      THEN rental.owner_final_payout_amount ELSE 0
        paid_parts == initial_paid + final_paid
        owner_total_paid ==
            IF paid_parts <= 0 /\ rental.owner_payout_status = "paid"
            THEN (IF rental.owner_payout_amount # 0 THEN rental.owner_payout_amount
                  ELSE owner_net)
            ELSE paid_parts
        received == IF owner_net # 0 THEN Min(owner_net, owner_total_paid)
                    ELSE owner_total_paid
    IN  [rental |-> rental,
         host_rental_amount |-> base_rental_amount,
         host_service_fee |-> service_fee_amount,
         host_net_take_home |-> owner_net,
         host_amount_received |-> received,
         host_amount_balance |-> Max(0, owner_net - received)]

\* build_owner_dashboard_context: the bookings of the owner's cars in booked,
\* active or completed, each as its dashboard entry.
OwnerDashboard(owner_id) ==
    LET Shown(rental) == /\ CarOwner[rental.car_id] = owner_id
                         /\ rental.status \in {"booked", "active", "completed"}
        shown == SelectSeq(rentals, Shown)
    IN  /\ inflight' = <<[owner_id |-> owner_id,
                          rentals_data |-> [k \in 1..Len(shown) |->
                                               OwnerDashboardRow(shown[k])]]>>
        /\ UNCHANGED <<cars, rentals>>


\* What a handler answers: abort(403) from role_required, the redirect of a
\* return that precedes the SELECT, abort(404) when the SELECT and the tests
\* on its row find nothing to act on, else the redirect at the handler's end.
Response(admitted, returns_early, found) ==
    IF ~admitted THEN "forbidden"
    ELSE IF returns_early THEN "redirect"
    ELSE IF ~found THEN "not_found"
    ELSE "redirect"

OwnerRoutes == {"owner_respond", "owner_start", "owner_extend", "owner_complete"}
RenterRoutes == {"renter_respond", "confirm_payment", "cancel"}

\* The answer of each handler that is addressed by a rental id.
RentalRouteResponse(route, actor, id, extra_hours) ==
    CASE route = "owner_respond" ->
             Response(RoleAdmits(actor, {"owner"}), FALSE, OwnsRental(actor, id))
      [] route = "owner_start" ->
             Response(RoleAdmits(actor, {"owner"}), FALSE, StartAllowed(actor, id))
      [] route = "owner_extend" ->
             Response(RoleAdmits(actor, {"owner"}), extra_hours <= 0,
                      OwnsRental(actor, id) /\ rentals[id].status \in {"booked", "active"})
      [] route = "owner_complete" ->
             Response(RoleAdmits(actor, {"owner"}), FALSE,
                      OwnsRental(actor, id) /\ rentals[id].status \in {"booked", "active"})
      [] route = "renter_respond" ->
             Response(RoleAdmits(actor, {"renter", "owner"}), FALSE, RentsRental(actor, id))
      [] route = "confirm_payment" ->
             Response(RoleAdmits(actor, {"renter", "owner"}), FALSE,
                      RentsRental(actor, id) /\ rentals[id].owner_response = "accepted")
      [] route = "cancel" ->
             Response(RoleAdmits(actor, {"renter", "owner"}), FALSE,
                      RentsRental(actor, id) /\ rentals[id].status \in {"booked", "active"})

\* The answer of owner_toggle_availability.
ToggleResponse(actor, car_id) ==
    Response(RoleAdmits(actor, {"owner"}), FALSE, CarOwner[car_id] = actor)

\* ------------------------------------- requests that run beside each other

\* A handler reads the rental with a SELECT and later writes it with an UPDATE
\* ... WHERE id = ?, each on its own connection and with no transaction around
\* the pair: the UPDATE sets its columns to values computed from the row that
\* was read and leaves the other columns as they are at the time of the write.

\* The columns of the split, which four UPDATEs set together.
PayoutColumns ==
    {"company_commission_amount", "owner_payout_amount", "owner_payout_status",
     "owner_payout_released_at", "owner_initial_payout_amount",
     "owner_initial_payout_status", "owner_initial_payout_released_at",
     "owner_final_payout_amount", "owner_final_payout_status",
     "owner_final_payout_released_at"}

\* The columns each UPDATE sets from the handler's parameters.
UpdateColumns(op) ==
    CASE op = "confirm_payment" ->
             PayoutColumns \cup {"payment_status", "payment_channel", "payment_due_at"}
      [] op = "extend" ->
             PayoutColumns \cup {"end_time", "rental_amount", "total_amount",
                                 "payment_status", "payment_due_at"}
      [] op = "complete" -> PayoutColumns \cup {"status", "end_time", "payment_status"}
      [] op = "cancel" -> {"status", "end_time", "renter_response"}

\* The test a handler makes on the row it reads before it goes on to write.
Eligible(op, actor, rental, extra_hours) ==
    CASE op = "confirm_payment" ->
             /\ RoleAdmits(actor, {"renter", "owner"})
             /\ rental.renter_id = actor
             /\ rental.owner_response = "accepted"
      [] op = "extend" ->
             /\ extra_hours > 0
             /\ RoleAdmits(actor, {"owner"})
             /\ CarOwner[rental.car_id] = actor
             /\ rental.status \in {"booked", "active"}
      [] op = "complete" ->
             /\ RoleAdmits(actor, {"owner"})
             /\ CarOwner[rental.car_id] = actor
             /\ rental.status \in {"booked", "active"}
      [] op = "cancel" ->
             /\ RoleAdmits(actor, {"renter", "owner"})
             /\ rental.renter_id = actor
             /\ rental.status \in {"booked", "active"}

\* The values a handler computes from the row it read.
ComputedRow(op, read, extra_hours, payment_channel, now) ==
    CASE op = "confirm_payment" -> FinalizeRentalPayment(read, payment_channel, now)
      [] op = "extend" -> ExtendedRental(read, extra_hours, now)
      [] op = "complete" -> CompletedRental(read, now)
      [] op = "cancel" -> CancelledRental(read, now)

\* The row an UPDATE leaves when the handler read the row as `read` and the
\* table holds `current` at the time of the write.  Two columns are computed by
\* the SQL itself, from the current row: renter_response in
\* finalize_rental_payment and payment_channel in owner_extend_rental.
WrittenRow(op, read, current, extra_hours, payment_channel, now) ==
    LET computed == ComputedRow(op, read, extra_hours, payment_channel, now)
        columns == UpdateColumns(op)
        written == [column \in DOMAIN current |->
                        IF column \in columns THEN computed[column]
                        ELSE current[column]]
    IN  CASE op = "confirm_payment" ->
                 [written EXCEPT !.renter_response =
                      IF current.renter_response = "" THEN "paid"
                      ELSE current.renter_response]
          [] op = "extend" ->
                 [written EXCEPT !.payment_channel =
                      IF computed.payment_status = "awaiting_payment" THEN "manual"
                      ELSE current.payment_channel]
          [] OTHER -> written

\* The handlers that end with UPDATE cars SET is_available = 1.
ReleasesCar(op) == op \in {"complete", "cancel"}

\* The handlers followed here.
OverlapOps == {"confirm_payment", "extend", "complete", "cancel"}

\* A request up to and including its SELECT: not found ends it, otherwise it
\* holds the row it read.  `base` keeps the tables as they were when the
\* first of the overlapping requests began.
BeginRequest(op, actor, id, extra_hours, payment_channel, now) ==
    /\ Len(inflight) <= 1
    /\ id \in RentalIds
    /\ (op = "extend" /\ extra_hours > 0) =>
           ExtendedRental(rentals[id], extra_hours, now).end_time <= MaxEndHours * 60
    /\ IF ~Eligible(op, actor, rentals[id], extra_hours)
       THEN UNCHANGED vars
       ELSE /\ inflight' = Append(inflight,
                    [op |-> op, actor |-> actor, id |-> id,
                     extra_hours |-> extra_hours,
                     payment_channel |-> payment_channel, now |-> now,
                     read |-> rentals[id],
                     base |-> [cars |-> cars, rentals |-> rentals],
                     done |-> FALSE])
            /\ UNCHANGED <<cars, rentals>>

\* The rest of the request: its UPDATEs and the commit.  The requests of a
\* round are forgotten when the last of them has finished.
FinishRequest(i) ==
    /\ i \in 1..Len(inflight)
    /\ ~inflight[i].done
    /\ LET request == inflight[i] IN
        /\ rentals' = [rentals EXCEPT ![request.id] =
               WrittenRow(request.op, request.read, rentals[request.id],
                          request.extra_hours, request.payment_channel, request.now)]
        /\ cars' = IF ReleasesCar(request.op)
                   THEN [cars EXCEPT ![request.read.car_id].is_available = TRUE]
                   ELSE cars
        /\ inflight' = IF \A k \in 1..Len(inflight) : k = i \/ inflight[k].done
                       THEN <<>>
                       ELSE [inflight EXCEPT ![i].done = TRUE]

\* The tables after a request handled from its SELECT to its commit with
\* nothing in between.
HandledAlone(request, tables) ==
    LET rental == tables.rentals[request.id] IN
    IF ~Eligible(request.op, request.actor, rental, request.extra_hours)
    THEN tables
    ELSE [rentals |-> [tables.rentals EXCEPT ![request.id] =
                          WrittenRow(request.op, rental, rental, request.extra_hours,
                                     request.payment_channel, request.now)],
          cars |-> IF ReleasesCar(request.op)
                   THEN [tables.cars EXCEPT ![rental.car_id].is_available = TRUE]
                   ELSE tables.cars]

\* ----------------------------------------------------- the specifications

\* The users who send booking requests.
Renters == {u \in Users : UserRole[u] = "renter"}

\* The two sides of a booking of the car: its owner and the renter.
Parties == {u \in Users : UserRole[u] \in {"owner", "renter"}}

\* The requests other than rent_car, each handled as one step.
Requests(actors, counter_inputs, extra_hour_inputs) ==
    \/ \E actor \in actors, car_id \in Cars : OwnerToggleAvailability(actor, car_id)
    \/ \E actor \in actors, id \in RentalIds, action \in OwnerActions \ {"counter"},
          reason \in Reasons, now \in Instants :
          OwnerRespondRental(actor, id, action, "0", "", reason, now)
    \/ \E actor \in actors, id \in RentalIds, counter_text \in counter_inputs,
          comment \in Comments, now \in Instants :
          OwnerRespondRental(actor, id, "counter", counter_text, comment, "", now)
    \/ \E actor \in actors, id \in RentalIds, action \in RenterActions, now \in Instants :
          RenterRespondRental(actor, id, action, now)
    \/ \E actor \in actors, id \in RentalIds, payment_channel \in Channels,
          now \in Instants :
          RenterConfirmPayment(actor, id, payment_channel, now)
    \/ \E actor \in actors, id \in RentalIds, now \in Instants :
          CancelRental(actor, id, now)
    \/ \E actor \in actors, id \in RentalIds : OwnerStartRental(actor, id)
    \/ \E actor \in actors, id \in RentalIds, extra_hours \in extra_hour_inputs,
          now \in Instants :
          OwnerExtendRental(actor, id, extra_hours, now)
    \/ \E actor \in actors, id \in RentalIds, now \in Instants :
          OwnerCompleteRental(actor, id, now)
    \/ \E id \in RentalIds, new_status \in AdminStatusInputs, now \in Instants :
          AdminUpdatePayment(id, new_status, now)
    \/ \E id \in RentalIds, now \in Instants : AdminReleaseOwnerPayout(id, now)

\* Up to MaxRentals bookings of the car, every request handled to its end
\* before the next one starts.
Next ==
    \/ \E actor \in Renters, car_id \in Cars, delivery \in FewDeliveryInputs,
          window \in Windows, promo_code \in FewPromoInputs :
          RentCar(actor, car_id, delivery, window, promo_code)
    \/ Requests(Parties, FewCounterInputs, FewExtraHourInputs)

Spec == Init /\ [][Next]_vars

\* One booking followed through every request, with every amount the forms
\* send; requests handled one at a time.
NextLedger ==
    \/ \E actor \in Parties, car_id \in Cars, delivery \in DeliveryInputs,
          window \in Windows, promo_code \in PromoInputs :
          /\ rentals = <<>>
          /\ RentCar(actor, car_id, delivery, window, promo_code)
    \/ Requests(Parties, CounterInputs, ExtraHourInputs)

SpecLedger == Init /\ [][NextLedger]_vars

\* Booking requests run beside each other: each one's read of the car and
\* its writes are separate steps.
NextRace ==
    \/ \E actor \in Renters, car_id \in Cars, delivery \in FewDeliveryInputs,
          window \in Windows, promo_code \in FewPromoInputs :
          RentCarRead(actor, car_id, delivery, window, promo_code)
    \/ \E i \in 1..Len(inflight) : RentCarWrite(i)
    \/ Requests(Parties, FewCounterInputs, FewExtraHourInputs)

SpecRace == Init /\ [][NextRace]_vars

\* One booking, and up to two requests on it that run beside each other,
\* each one's SELECT and its UPDATEs separate steps; the other requests are
\* handled one at a time while none of these is under way.
NextOverlap ==
    \/ \E actor \in Renters, car_id \in Cars, delivery \in FewDeliveryInputs,
          window \in Windows, promo_code \in FewPromoInputs :
          /\ rentals = <<>>
          /\ RentCar(actor, car_id, delivery, window, promo_code)
    \/ /\ inflight = <<>>
       /\ Requests(Parties, FewCounterInputs, FewExtraHourInputs)
    \/ \E op \in OverlapOps, actor \in Users, id \in RentalIds,
          extra_hours \in ExtraHourInputs, payment_channel \in Channels,
          now \in Instants :
          BeginRequest(op, actor, id, extra_hours, payment_channel, now)
    \/ \E i \in 1..Len(inflight) : FinishRequest(i)

SpecOverlap == Init /\ [][NextOverlap]_vars

\* One booking, with every user sending every request, the users who are no
\* party to the booking included; requests handled one at a time.
NextActors ==
    \/ \E actor \in Users, car_id \in Cars, delivery \in FewDeliveryInputs,
          window \in Windows, promo_code \in FewPromoInputs :
          /\ rentals = <<>>
          /\ RentCar(actor, car_id, delivery, window, promo_code)
    \/ Requests(Users, FewCounterInputs, ExtraHourInputs)

SpecActors == Init /\ [][NextActors]_vars

\* calculate_pricing on its own, called once with any of the arguments.
InitFare ==
    /\ cars = [c \in Cars |-> [is_available |-> TRUE, is_active |-> TRUE]]
    /\ rentals = <<>>
    /\ inflight \in {<<QuoteRequest(rate_per_hour, daily_rate, window, promo_code)>> :
                        rate_per_hour \in FareHourlyRates, daily_rate \in FareDailyRates,
                        window \in FareWindows, promo_code \in FarePromoInputs}

NextFare == Quote

SpecFare == InitFare /\ [][NextFare]_vars

\* fetch_available_cars on its own, called once over any flags of the
\* listings and at most one booking of one of them: as requested, paid and
\* started, completed, or cancelled by the renter.
BookingsOf(car_id) ==
    LET booked == [NewRental(1, 2, <<"pickup", 0>>, <<0, 60>>, "") EXCEPT !.car_id = car_id]
        paid == FinalizeRentalPayment(OwnerAcceptRow(booked, 0), "upi/netbanking", 0)
        active == [paid EXCEPT !.status = "active"]
    IN  {booked, active, CompletedRental(active, 0), CancelledRental(booked, 0)}

InitSearch ==
    /\ cars \in [Listings -> [is_available : BOOLEAN, is_active : {TRUE}]]
    /\ rentals \in {<<>>} \cup
                   {<<rental>> : rental \in UNION {BookingsOf(car_id) : car_id \in Listings}}
    /\ inflight \in {<<SearchRequest(latitude, radius, price_max)>> :
                        latitude \in SearchOrigins, radius \in SearchRadii,
                        price_max \in SearchPriceMax}

NextSearch == Search

SpecSearch == InitSearch /\ [][NextSearch]_vars

\* The three handlers that compute the split, each on a booking the owner has
\* accepted, of any of the totals (paise), by whichever of them comes first.
SplitTotals ==
    {-5000, -7, -1, 0, 1, 2, 4, 7, 9, 14, 16, 44, 99, 100, 101, 999, 3000, 4993,
     10000, 12346, 15000, 20000, 25000, 99999, 100001, 250000}

InitSplit ==
    /\ cars = [c \in Cars |-> [is_available |-> FALSE, is_active |-> TRUE]]
    /\ rentals \in {<<OwnerAcceptRow([NewRental(1, 2, <<"pickup", 0>>, <<0, 60>>, "")
                                         EXCEPT !.rental_amount = total_amount,
                                                !.total_amount = total_amount], 0)>> :
                       total_amount \in SplitTotals}
    /\ inflight = <<>>

NextSplit ==
    \E id \in RentalIds, now \in Instants :
        \/ RenterConfirmPayment(rentals[id].renter_id, id, "upi/netbanking", now)
        \/ OwnerCompleteRental(CarOwner[rentals[id].car_id], id, now)
        \/ AdminUpdatePayment(id, "paid", now)

SpecSplit == InitSplit /\ [][NextSplit]_vars

\* The bookings of SpecSplit with the owner opening the dashboard at any time.
NextDashboard ==
    \/ NextSplit
    \/ \E owner_id \in {CarOwner[car_id] : car_id \in Cars} : OwnerDashboard(owner_id)

SpecDashboard == InitSplit /\ [][NextDashboard]_vars

\* ------------------------------------------------------------ the claims

OpenStatuses == {"booked", "active"}
TerminalStatuses == {"completed", "cancelled"}

\* |a - b| <= 0.01, in paise.
WithinOnePaisa(a, b) == a - b <= 1 /\ b - a <= 1

\* C1: every vehicle has at most one booking whose status is booked or active.
AtMostOneOpenBookingPerCar ==
    \A car_id \in Cars :
        Cardinality({id \in RentalIds : /\ rentals[id].car_id = car_id
                                        /\ rentals[id].status \in OpenStatuses}) <= 1

\* C2: the writes of a booking request (the insert and the mark-unavailable)
\* happen only if the vehicle is still marked available at write time, so of
\* two requests that both read "available" at most one creates a booking.
WriteOnlyIfStillAvailable ==
    [][\A i \in 1..Len(inflight) :
          RentCarWrite(i) => cars[inflight[i].car_id].is_available]_vars

\* C3: every booking with payment_status = paid has
\* company_commission_amount + owner_payout_amount = total_amount (within 0.01).
PaidSplitReconciles ==
    \A id \in RentalIds :
        rentals[id].payment_status = "paid" =>
            WithinOnePaisa(rentals[id].company_commission_amount
                               + rentals[id].owner_payout_amount,
                           rentals[id].total_amount)

\* C4: every booking has owner_initial_payout_amount + owner_final_payout_amount
\* = owner_payout_amount (within 0.01).
InitialPlusFinalIsPayout ==
    \A id \in RentalIds :
        WithinOnePaisa(rentals[id].owner_initial_payout_amount
                           + rentals[id].owner_final_payout_amount,
                       rentals[id].owner_payout_amount)

\* C5: once a booking's status is completed or cancelled, no request changes it.
TerminalStatusStays ==
    [][\A id \in RentalIds :
          rentals[id].status \in TerminalStatuses =>
              rentals'[id].status = rentals[id].status]_vars

\* C6: a vehicle that has a booking in status booked or active has its
\* availability flag false.
OpenBookingMeansUnavailable ==
    \A id \in RentalIds :
        rentals[id].status \in OpenStatuses => ~cars[rentals[id].car_id].is_available

\* C7: a booking goes from booked to active only when owner_response = accepted
\* and payment_status = paid, and a start request made in any other state (or
\* by someone who does not own the car) changes nothing.
StartOnlyWhenAcceptedAndPaid ==
    [][\A id \in RentalIds :
          /\ (rentals[id].status = "booked" /\ rentals'[id].status = "active") =>
                 /\ rentals[id].owner_response = "accepted"
                 /\ rentals[id].payment_status = "paid"
          /\ \A actor \in Users :
                 (/\ OwnerStartRental(actor, id)
                  /\ ~(/\ rentals[id].status = "booked"
                       /\ rentals[id].owner_response = "accepted"
                       /\ rentals[id].payment_status = "paid")) =>
                     UNCHANGED vars]_vars

\* C7 witness: a trip the owner has started.
StartedTrip ==
    \E id \in RentalIds :
        /\ rentals[id].status = "active"
        /\ rentals[id].owner_response = "accepted"
        /\ rentals[id].payment_status = "paid"

\* C8: counter_used, once true, is never set back to false (so it changes
\* from false to true at most once).
CounterUsedNeverReset ==
    [][\A id \in RentalIds :
          rentals[id].counter_used => rentals'[id].counter_used]_vars

\* C8 witness: a booking whose counter-offer the owner later replaced by an
\* accept, counter_used still set.
CounterUsedThenAccepted ==
    \E id \in RentalIds :
        /\ rentals[id].counter_used
        /\ rentals[id].owner_response = "accepted"
        /\ rentals[id].renter_response # "accepted"

\* The (action, owner_response) combinations the negotiation acts on.
ListedOwnerCombination(action, rental) ==
    \/ action = "accept" /\ rental.owner_response \in {"pending", "counter"}
    \/ action = "reject" /\ rental.owner_response = "pending"
    \/ action = "counter" /\ rental.owner_response = "pending" /\ ~rental.counter_used

ListedRenterCombination(action, rental) ==
    \/ action = "accept_counter" /\ rental.owner_response = "counter"
    \/ action = "decline_counter" /\ rental.owner_response = "counter"

\* C9: an owner respond or renter respond request whose (action,
\* owner_response) combination is not one of the listed ones changes neither
\* the booking nor its vehicle.
UnlistedResponseChangesNothing ==
    [][\A actor \in Users, id \in RentalIds, now \in Instants :
          /\ \A action \in OwnerActions \ {"counter"}, reason \in Reasons :
                 (/\ ~ListedOwnerCombination(action, rentals[id])
                  /\ OwnerRespondRental(actor, id, action, "0", "", reason, now)) =>
                     UNCHANGED vars
          /\ \A counter_text \in CounterInputs, comment \in Comments :
                 (/\ ~ListedOwnerCombination("counter", rentals[id])
                  /\ OwnerRespondRental(actor, id, "counter", counter_text, comment, "", now)) =>
                     UNCHANGED vars
          /\ \A action \in RenterActions :
                 (/\ ~ListedRenterCombination(action, rentals[id])
                  /\ RenterRespondRental(actor, id, action, now)) =>
                     UNCHANGED vars]_vars

\* C9 witness: a booking with a counter-offer outstanding, where reject and a
\* second counter are combinations outside the list.
CounterOutstanding ==
    \E id \in RentalIds :
        /\ rentals[id].owner_response = "counter"
        /\ rentals[id].counter_used
        /\ rentals[id].status = "booked"

\* C10: a booking with owner_response = counter has payment_status = pending.
CounterMeansPaymentPending ==
    \A id \in RentalIds :
        rentals[id].owner_response = "counter" => rentals[id].payment_status = "pending"

\* C11: a counter action on a booking whose counter_used is already true is a
\* no-op: counter_amount, counter_comment and owner_response (and everything
\* else) keep their values.
SecondCounterIsNoOp ==
    [][\A actor \in Users, id \in RentalIds, counter_text \in CounterInputs,
          comment \in Comments, now \in Instants :
          (/\ rentals[id].counter_used
           /\ OwnerRespondRental(actor, id, "counter", counter_text, comment, "", now)) =>
              /\ rentals'[id].counter_amount = rentals[id].counter_amount
              /\ rentals'[id].counter_comment = rentals[id].counter_comment
              /\ rentals'[id].owner_response = rentals[id].owner_response
              /\ UNCHANGED vars]_vars

\* C11 witness: a booking that carries the owner's one counter-offer, amount
\* and comment stored.
CounterOfferStored ==
    \E id \in RentalIds :
        /\ rentals[id].counter_used
        /\ rentals[id].counter_amount = Some(3000)
        /\ rentals[id].counter_comment = "note"

\* C12: an extension by a positive number of hours (the owner's, on a booked
\* or active booking) whose payment_status is paid sets payment_status to
\* awaiting_payment with a new payment due time, sets the commission, the
\* owner payout, the initial and the final payout amounts to zero and all
\* three payout statuses to pending.
ExtendPaidResetsPayment ==
    [][\A actor \in Users, id \in RentalIds, extra_hours \in ExtraHourInputs,
          now \in Instants :
          (/\ extra_hours > 0
           /\ OwnsRental(actor, id)
           /\ rentals[id].status \in OpenStatuses
           /\ rentals[id].payment_status = "paid"
           /\ OwnerExtendRental(actor, id, extra_hours, now)) =>
              /\ rentals'[id].payment_status = "awaiting_payment"
              /\ rentals'[id].payment_due_at = Some(now + OneHour)
              /\ rentals'[id].company_commission_amount = 0
              /\ rentals'[id].owner_payout_amount = 0
              /\ rentals'[id].owner_initial_payout_amount = 0
              /\ rentals'[id].owner_final_payout_amount = 0
              /\ rentals'[id].owner_payout_status = "pending"
              /\ rentals'[id].owner_initial_payout_status = "pending"
              /\ rentals'[id].owner_final_payout_status = "pending"]_vars

\* C12 witness: a booking the renter paid for and the owner then extended by
\* an hour, payment due again.
PaidBookingExtended ==
    \E id \in RentalIds :
        /\ rentals[id].status \in OpenStatuses
        /\ rentals[id].renter_response = "paid"
        /\ rentals[id].end_time = 120
        /\ rentals[id].payment_status = "awaiting_payment"
        /\ rentals[id].payment_due_at = Some(660)
        /\ rentals[id].company_commission_amount = 0

\* C13: a reject action by the owner on a booking with owner_response =
\* pending sets owner_response = rejected and status = cancelled, stores the
\* reason, and sets the vehicle's availability flag to true.
RejectCancelsAndReleases ==
    [][\A actor \in Users, id \in RentalIds, reason \in Reasons, now \in Instants :
          (/\ OwnsRental(actor, id)
           /\ rentals[id].owner_response = "pending"
           /\ OwnerRespondRental(actor, id, "reject", "0", "", reason, now)) =>
              /\ rentals'[id].owner_response = "rejected"
              /\ rentals'[id].status = "cancelled"
              /\ rentals'[id].cancel_reason = Strip(reason)
              /\ cars'[rentals[id].car_id].is_available]_vars

\* C13 witness: a booking the owner rejected, its reason stored and its car
\* available again.
RejectedBooking ==
    \E id \in RentalIds :
        /\ rentals[id].owner_response = "rejected"
        /\ rentals[id].status = "cancelled"
        /\ rentals[id].cancel_reason = "busy"
        /\ cars[rentals[id].car_id].is_available

\* C14: every booking whose owner_payout_amount is not zero has
\* owner_initial_payout_amount + owner_final_payout_amount =
\* owner_payout_amount (within 0.01).
NonZeroPayoutIsInitialPlusFinal ==
    \A id \in RentalIds :
        rentals[id].owner_payout_amount # 0 =>
            WithinOnePaisa(rentals[id].owner_initial_payout_amount
                               + rentals[id].owner_final_payout_amount,
                           rentals[id].owner_payout_amount)

\* C14 witness: a booking the renter paid for, with a payout split into a
\* released initial part and a held final part.
PayoutSplitStored ==
    \E id \in RentalIds :
        /\ rentals[id].renter_response = "paid"
        /\ rentals[id].owner_payout_amount > 0
        /\ rentals[id].owner_initial_payout_amount > 0
        /\ rentals[id].owner_final_payout_amount > 0
        /\ rentals[id].owner_final_payout_status = "pending"

\* C15: in every booking company_commission_amount, owner_payout_amount,
\* owner_initial_payout_amount and owner_final_payout_amount are all
\* non-negative, whatever total the requests have produced (a total adopted
\* from a zero or negative counter amount included).
SplitAmountsNonNegative ==
    \A id \in RentalIds :
        /\ rentals[id].company_commission_amount >= 0
        /\ rentals[id].owner_payout_amount >= 0
        /\ rentals[id].owner_initial_payout_amount >= 0
        /\ rentals[id].owner_final_payout_amount >= 0

\* The tables after the requests of a round handled one after the other, in
\* either order.
SerialOutcomes(requests) ==
    IF Len(requests) = 1
    THEN {HandledAlone(requests[1], requests[1].base)}
    ELSE {HandledAlone(requests[2], HandledAlone(requests[1], requests[1].base)),
          HandledAlone(requests[1], HandledAlone(requests[2], requests[1].base))}

\* C16: each transition on a booking is atomic: when two requests on the same
\* booking run beside each other, each one's read and its write separate
\* steps, the bookings and vehicles they leave are those left by the two
\* requests handled one after the other in some order.
OverlappingRequestsSerialize ==
    [][(inflight # <<>> /\ inflight' = <<>>) =>
          [cars |-> cars', rentals |-> rentals'] \in SerialOutcomes(inflight)]_vars

\* The answers a request of someone else's booking may get: not found, or
\* forbidden when the actor's role does not admit the route, or the redirect
\* of an extension by no hours, which returns before it looks the booking up.
RefusedAnswer(route, actor, id, extra_hours) ==
    \/ RentalRouteResponse(route, actor, id, extra_hours) = "not_found"
    \/ /\ RentalRouteResponse(route, actor, id, extra_hours) = "forbidden"
       /\ ~RoleAdmits(actor, IF route \in OwnerRoutes THEN {"owner"}
                             ELSE {"renter", "owner"})
    \/ /\ RentalRouteResponse(route, actor, id, extra_hours) = "redirect"
       /\ route = "owner_extend"
       /\ extra_hours <= 0

\* A request by an actor who does not own the booking's car (owner side), or
\* who is not the booking's renter (renter side), leaves the tables alone.
ForeignRequestChangesNothing ==
    \A actor \in Users, id \in RentalIds, now \in Instants :
        /\ CarOwner[rentals[id].car_id] # actor =>
               /\ \A action \in OwnerActions, counter_text \in FewCounterInputs,
                     comment \in Comments, reason \in Reasons :
                     OwnerRespondRental(actor, id, action, counter_text, comment,
                                        reason, now) => UNCHANGED vars
               /\ OwnerStartRental(actor, id) => UNCHANGED vars
               /\ \A extra_hours \in ExtraHourInputs :
                     OwnerExtendRental(actor, id, extra_hours, now) => UNCHANGED vars
               /\ OwnerCompleteRental(actor, id, now) => UNCHANGED vars
               /\ OwnerToggleAvailability(actor, rentals[id].car_id) => UNCHANGED vars
        /\ rentals[id].renter_id # actor =>
               /\ \A action \in RenterActions :
                     RenterRespondRental(actor, id, action, now) => UNCHANGED vars
               /\ \A payment_channel \in Channels :
                     RenterConfirmPayment(actor, id, payment_channel, now) =>
                         UNCHANGED vars
               /\ CancelRental(actor, id, now) => UNCHANGED vars

\* C17, as the code has it: an owner-side request (respond, start, extend,
\* complete, toggle availability) by an actor who does not own the booking's
\* vehicle, and a renter-side request (respond, confirm payment, cancel) by an
\* actor who is not the booking's renter, leaves every booking and every
\* vehicle unchanged, and is answered not found, or forbidden when the actor's
\* role does not admit the route, or, for an extension by no hours, with the
\* redirect of its early return.
ForeignRequestRefused ==
    /\ [](\A actor \in Users, id \in RentalIds, extra_hours \in ExtraHourInputs :
            /\ CarOwner[rentals[id].car_id] # actor =>
                   /\ \A route \in OwnerRoutes :
                         RefusedAnswer(route, actor, id, extra_hours)
                   /\ ToggleResponse(actor, rentals[id].car_id)
                          \in {"not_found", "forbidden"}
            /\ rentals[id].renter_id # actor =>
                   \A route \in RenterRoutes :
                       RefusedAnswer(route, actor, id, extra_hours))
    /\ [][ForeignRequestChangesNothing]_vars

\* C17 as stated: every such request ends in a not-found outcome.
ForeignRequestIsNotFound ==
    \A actor \in Users, id \in RentalIds, extra_hours \in ExtraHourInputs :
        /\ CarOwner[rentals[id].car_id] # actor =>
               /\ \A route \in OwnerRoutes :
                     RentalRouteResponse(route, actor, id, extra_hours) = "not_found"
               /\ ToggleResponse(actor, rentals[id].car_id) = "not_found"
        /\ rentals[id].renter_id # actor =>
               \A route \in RenterRoutes :
                   RentalRouteResponse(route, actor, id, extra_hours) = "not_found"

\* C17 witness: a booking of user 2, accepted and paid for, which user 3 (whose
\* role admits every route) neither rents nor owns the car of: start, extend,
\* complete, cancel would all act on it for the right actor.
BookingOpenToItsPartiesOnly ==
    \E id \in RentalIds :
        /\ rentals[id].renter_id = 2
        /\ CarOwner[rentals[id].car_id] = 1
        /\ rentals[id].status = "booked"
        /\ rentals[id].owner_response = "accepted"
        /\ rentals[id].payment_status = "paid"
        /\ UserRole[3] = "both"

\* C18: a cancel request of the booking's renter takes effect only when the
\* booking's status is booked or active: it then sets status = cancelled and
\* the vehicle's availability flag to true; in any other status it leaves the
\* booking and the vehicle unchanged.
CancelOnlyWhenOpen ==
    [][\A actor \in Users, id \in RentalIds, now \in Instants :
          (rentals[id].renter_id = actor /\ CancelRental(actor, id, now)) =>
              IF rentals[id].status \in OpenStatuses
              THEN /\ rentals'[id].status = "cancelled"
                   /\ cars'[rentals[id].car_id].is_available
              ELSE UNCHANGED vars]_vars

\* C18 witness: a booking its renter cancelled, the car available again.
CancelledByRenter ==
    \E id \in RentalIds :
        /\ rentals[id].status = "cancelled"
        /\ rentals[id].renter_response = "cancelled_by_renter"
        /\ cars[rentals[id].car_id].is_available

\* The quotes calculate_pricing has returned.
Quoted == {i \in 1..Len(inflight) : ~IsNull(inflight[i].pricing)}

\* full_days x daily_rate + min(daily_rate, remaining_hours x hourly_rate) for
\* a window of `minutes`: hours floored to a minimum of 1, whole 24-hour
\* blocks, the rest rounded up to whole hours.
BlendedBase(hourly_rate, daily_rate, minutes) ==
    LET floored == IF minutes < 60 THEN 60 ELSE minutes
        full_days == floored \div 1440
        rest == floored - full_days * 1440
        remaining_hours == IF rest % 60 = 0 THEN rest \div 60 ELSE rest \div 60 + 1
        partial_day == IF daily_rate <= remaining_hours * hourly_rate THEN daily_rate
                       ELSE remaining_hours * hourly_rate
    IN  [base |-> full_days * daily_rate + partial_day, partial_day |-> partial_day]

\* The spec's example: hourly 100, daily 2000, 30 hours, no promo.
IsExample(quote) ==
    /\ quote.rate_per_hour = 10000
    /\ quote.daily_rate = 200000
    /\ quote.end - quote.start = 1800
    /\ quote.promo_code = ""

\* C19, as the code has it: the base amount is full_days x daily_rate +
\* min(daily_rate, remaining_hours x hourly_rate), where a daily rate of zero
\* stands for 24 x the hourly rate and a window whose end is not after its
\* start stands for one of 4 hours; hourly 100, daily 2000 and 30 hours with
\* no promo give base 2600, discount 0, total 2600; and the partial day never
\* costs more than the daily rate.
FareBaseBlendsDaysAndHours ==
    \A i \in Quoted :
        LET quote == inflight[i]
            pricing == Val(quote.pricing)
            daily_rate == IF quote.daily_rate = 0 THEN quote.rate_per_hour * 24
                          ELSE quote.daily_rate
            minutes == IF quote.end <= quote.start THEN DefaultWindow
                       ELSE quote.end - quote.start
            blended == BlendedBase(quote.rate_per_hour, daily_rate, minutes)
        IN  /\ pricing.base_amount = blended.base
            /\ blended.partial_day <= daily_rate
            /\ IsExample(quote) =>
                   /\ pricing.base_amount = 260000
                   /\ pricing.discount = 0
                   /\ pricing.total = 260000

\* C19 as stated: the same with the daily rate and the window taken as given,
\* for every hourly rate, daily rate and window.
FareBaseFromRatesAsGiven ==
    \A i \in Quoted :
        LET quote == inflight[i]
            pricing == Val(quote.pricing)
            blended == BlendedBase(quote.rate_per_hour, quote.daily_rate,
                                   quote.end - quote.start)
        IN  /\ pricing.base_amount = blended.base
            /\ blended.partial_day <= quote.daily_rate
            /\ IsExample(quote) =>
                   /\ pricing.base_amount = 260000
                   /\ pricing.discount = 0
                   /\ pricing.total = 260000

\* C19 witness: the quote of the spec's example, one whole day and six hours
\* under the cap.
ExampleQuoted ==
    \E i \in Quoted :
        /\ IsExample(inflight[i])
        /\ Val(inflight[i].pricing).base_amount = 200000 + 60000

\* The promo codes as typed that, trimmed and case-folded, are in the code
\* table, with the table's percentage; 0 for the others.
TablePercentOf(typed) ==
    CASE typed = " zoom10 " -> 10
      [] typed = "firstdrive" -> 20
      [] typed = "WEEKEND15" -> 15
      [] OTHER -> 0

\* C20: a promo code that, trimmed and case-folded, is not in the code table
\* yields discount 0, a total equal to the base amount and no applied code (and
\* a result, not an error); a code that is in the table yields discount = base
\* x its percentage (to the paisa) and a total that is not negative.
PromoDiscountByTable ==
    \A i \in Quoted :
        LET quote == inflight[i]
            pricing == Val(quote.pricing)
            percent == TablePercentOf(quote.promo_code)
        IN  IF percent = 0
            THEN /\ pricing.discount = 0
                 /\ pricing.total = pricing.base_amount
                 /\ pricing.promo_applied = ""
            ELSE /\ 100 * pricing.discount - pricing.base_amount * percent <= 50
                 /\ pricing.base_amount * percent - 100 * pricing.discount <= 50
                 /\ pricing.promo_applied # ""
                 /\ pricing.total >= 0

\* C20 witness: a quote for a code that is not in the table, on a fare that is
\* not zero.
UnknownCodeQuoted ==
    \E i \in Quoted :
        /\ inflight[i].promo_code = "UNKNOWNCODE"
        /\ Val(inflight[i].pricing).base_amount > 0
        /\ Val(inflight[i].pricing).total = Val(inflight[i].pricing).base_amount

\* The listings a finished search returned, and the row of each.
SearchesAnswered == {i \in 1..Len(inflight) : "found" \in DOMAIN inflight[i] /\ ~IsNull(inflight[i].found)}
FoundIds(i) == {Val(inflight[i].found)[k].id : k \in 1..Len(Val(inflight[i].found))}
FoundRow(i, car_id) ==
    LET found == Val(inflight[i].found)
    IN  found[CHOOSE k \in 1..Len(found) : found[k].id = car_id]
WithinRadius(i, car_id) ==
    LET position == ListingPosition[car_id]
        origin == inflight[i].latitude
    IN  /\ position - origin <= inflight[i].radius_km
        /\ origin - position <= inflight[i].radius_km
Bookable(car_id) ==
    /\ cars[car_id].is_available
    /\ \A id \in RentalIds :
          rentals[id].car_id = car_id => rentals[id].status \notin OpenStatuses

\* C21: a listing a search returns is marked Available exactly when its
\* availability flag is set and it has no booking in booked or active, and
\* Unavailable otherwise; every active listing within the price filter and
\* the radius is returned, the unavailable ones included.
SearchMarksAvailability ==
    \A i \in SearchesAnswered :
        /\ \A car_id \in FoundIds(i) :
              /\ FoundRow(i, car_id).status \in {"Available", "Unavailable"}
              /\ FoundRow(i, car_id).status = "Available" <=> Bookable(car_id)
        /\ \A car_id \in Listings :
              (/\ cars[car_id].is_active
               /\ IsNull(inflight[i].price_max) \/ ListingRate[car_id] <= Val(inflight[i].price_max)
               /\ WithinRadius(i, car_id))
              => car_id \in FoundIds(i)

\* A search returned a listing with its flag set and an open booking, marked
\* Unavailable, next to one marked Available.
UnavailableListingReturned ==
    \E i \in SearchesAnswered : \E car_id, other \in FoundIds(i) :
        /\ cars[car_id].is_available
        /\ ~Bookable(car_id)
        /\ FoundRow(i, car_id).status = "Unavailable"
        /\ FoundRow(i, other).status = "Available"

\* C22: for every origin and every radius, zero included, a search returns no
\* listing farther from the origin than the radius, and returns its listings
\* in order of non-decreasing distance.
SearchWithinRadiusInOrder ==
    \A i \in SearchesAnswered :
        /\ \A car_id \in FoundIds(i) : WithinRadius(i, car_id)
        /\ \A k \in 1..(Len(Val(inflight[i].found)) - 1) :
              Val(inflight[i].found)[k].distance_km <= Val(inflight[i].found)[k + 1].distance_km

\* C23: every booking has total_amount = rental_amount + delivery_fee, also
\* after the renter accepts a counter-offer below the delivery fee and after
\* an extension.
TotalIsRentalPlusDelivery ==
    \A id \in RentalIds :
        rentals[id].total_amount = rentals[id].rental_amount + rentals[id].delivery_fee

\* C24: the final payout is released only at trip completion: a booking whose
\* owner_final_payout_status is paid has status completed.
FinalPayoutPaidOnlyWhenCompleted ==
    \A id \in RentalIds :
        rentals[id].owner_final_payout_status = "paid" => rentals[id].status = "completed"

\* C25: while a booking's payment_status is paid, a payout part, initial or
\* final, whose amount is zero has status not_required.
ZeroPayoutPartNotRequired ==
    \A id \in RentalIds :
        rentals[id].payment_status = "paid" =>
            /\ rentals[id].owner_initial_payout_amount = 0 =>
                  rentals[id].owner_initial_payout_status = "not_required"
            /\ rentals[id].owner_final_payout_amount = 0 =>
                  rentals[id].owner_final_payout_status = "not_required"

PayoutReset(rental) ==
    /\ rental.company_commission_amount = 0
    /\ rental.owner_payout_amount = 0
    /\ rental.owner_initial_payout_amount = 0
    /\ rental.owner_final_payout_amount = 0
    /\ rental.owner_payout_status = "pending"
    /\ rental.owner_initial_payout_status = "pending"
    /\ rental.owner_final_payout_status = "pending"
    /\ IsNull(rental.owner_payout_released_at)
    /\ IsNull(rental.owner_initial_payout_released_at)
    /\ IsNull(rental.owner_final_payout_released_at)

\* C27: the owner's accept on a booking whose owner_response is pending or
\* counter leaves owner_response accepted, payment_status awaiting_payment,
\* the payment due one hour after the request, and the payout columns reset.
OwnerAcceptOpensPayment ==
    \A id \in RentalIds, now \in Instants :
        rentals[id].owner_response \in {"pending", "counter"} =>
            LET actor == CarOwner[rentals[id].car_id]
                accept == OwnerRespondRental(actor, id, "accept", "", "", "", now)
            IN  /\ ENABLED (accept /\ vars' # vars)
                /\ ~ENABLED (/\ accept
                             /\ ~(/\ rentals'[id].owner_response = "accepted"
                                  /\ rentals'[id].payment_status = "awaiting_payment"
                                  /\ rentals'[id].payment_due_at = Some(now + OneHour)
                                  /\ PayoutReset(rentals'[id])))

\* C27 witness: the owner accepted the booking after countering it, and the
\* renter has one hour to pay.
OwnerAcceptedAfterCounter ==
    \E id \in RentalIds :
        /\ rentals[id].counter_used
        /\ rentals[id].owner_response = "accepted"
        /\ rentals[id].renter_response # "accepted"
        /\ rentals[id].payment_status = "awaiting_payment"
        /\ rentals[id].payment_due_at = Some(660)
        /\ PayoutReset(rentals[id])

\* C28: accept_counter on a booking whose owner_response is counter stores the
\* counter amount as total_amount and total_amount - delivery_fee as
\* rental_amount, whatever the counter amount: zero, negative or below the
\* delivery fee.
AcceptCounterAdoptsCounterAmount ==
    \A id \in RentalIds, now \in Instants :
        (rentals[id].owner_response = "counter" /\ ~IsNull(rentals[id].counter_amount)) =>
            ~ENABLED (/\ RenterRespondRental(rentals[id].renter_id, id, "accept_counter", now)
                      /\ ~(/\ rentals'[id].total_amount = Val(rentals[id].counter_amount)
                           /\ rentals'[id].rental_amount =
                                 rentals'[id].total_amount - rentals[id].delivery_fee))

\* C29: accept_counter leaves both responses accepted, payment_status
\* awaiting_payment, the payment due one hour after the request, and the
\* payout columns reset, the two parts of the payout included.
AcceptCounterOpensPayment ==
    \A id \in RentalIds, now \in Instants :
        rentals[id].owner_response = "counter" =>
            ~ENABLED (/\ RenterRespondRental(rentals[id].renter_id, id, "accept_counter", now)
                      /\ ~(/\ rentals'[id].owner_response = "accepted"
                           /\ rentals'[id].renter_response = "accepted"
                           /\ rentals'[id].payment_status = "awaiting_payment"
                           /\ rentals'[id].payment_due_at = Some(now + OneHour)
                           /\ PayoutReset(rentals'[id])))

\* What a payment confirmation leaves in a row whose total was total_amount,
\* given the owner payout it is to store and whether a zero initial part is
\* stored as not_required, unreleased.
ConfirmedAs(row, total_amount, now, payout, zero_part_not_required) ==
    LET commission == RoundDiv(total_amount * COMPANY_COMMISSION_RATE, 100)
        initial == IF payout <= 0 THEN 0
                   ELSE RoundDiv(payout * OWNER_INITIAL_PAYOUT_RATE, 100)
    IN  /\ row.payment_status = "paid"
        /\ IsNull(row.payment_due_at)
        /\ row.company_commission_amount = commission
        /\ row.owner_payout_amount = payout
        /\ row.owner_initial_payout_amount = initial
        /\ row.owner_final_payout_amount = payout - initial
        /\ IF zero_part_not_required /\ initial = 0
           THEN /\ row.owner_initial_payout_status = "not_required"
                /\ IsNull(row.owner_initial_payout_released_at)
           ELSE /\ row.owner_initial_payout_status = "paid"
                /\ row.owner_initial_payout_released_at = Some(now)
        /\ row.owner_final_payout_status =
              IF payout - initial = 0 THEN "not_required" ELSE "pending"

\* The renter's payment confirmations that act on a booking.
ConfirmsPayment(id, now, outcome(_, _, _)) ==
    rentals[id].owner_response = "accepted" =>
        /\ ENABLED (/\ RenterConfirmPayment(rentals[id].renter_id, id, "upi/netbanking", now)
                    /\ rentals'[id].payment_status = "paid")
        /\ ~ENABLED (/\ RenterConfirmPayment(rentals[id].renter_id, id, "upi/netbanking", now)
                     /\ ~outcome(rentals'[id], rentals[id].total_amount, now))

\* C30 as stated: owner payout = total_amount - commission and the initial
\* part always paid with a release time.
ConfirmPaymentSplitAsStated ==
    \A id \in RentalIds, now \in Instants :
        LET Stated(row, total_amount, at) ==
                ConfirmedAs(row, total_amount, at,
                            total_amount - RoundDiv(total_amount * COMPANY_COMMISSION_RATE, 100),
                            FALSE)
        IN  ConfirmsPayment(id, now, Stated)

\* C30: payment confirmation sets payment_status paid, clears payment_due_at
\* and stores commission = round(total_amount x commission rate), owner payout
\* = total_amount - commission and not less than zero, initial payout =
\* round(owner payout x initial rate), final payout = owner payout - initial
\* payout; the initial part is paid with a release time, or not_required and
\* unreleased when it is zero; the final part is pending, or not_required when
\* it is zero.
ConfirmPaymentStoresSplit ==
    \A id \in RentalIds, now \in Instants :
        LET Stored(row, total_amount, at) ==
                ConfirmedAs(row, total_amount, at,
                            Max(0, total_amount - RoundDiv(total_amount * COMPANY_COMMISSION_RATE, 100)),
                            TRUE)
        IN  ConfirmsPayment(id, now, Stored)

\* C30 witness: the renter confirmed the payment of a booking whose total, a
\* counter amount, is negative: nothing is due to the owner.
NegativeTotalConfirmed ==
    \E id \in RentalIds :
        /\ rentals[id].payment_status = "paid"
        /\ rentals[id].payment_channel = "upi/netbanking"
        /\ rentals[id].total_amount < 0
        /\ rentals[id].owner_payout_amount = 0
        /\ rentals[id].owner_initial_payout_status = "not_required"
        /\ IsNull(rentals[id].payment_due_at)

\* C31: the owner's completion of a booking in booked or active leaves status
\* completed and payment_status paid, sets the car's availability flag, and
\* leaves the final payout paid when its amount is positive and not_required
\* when it is zero; when the booking was not paid, the commission and the
\* payout amounts are those payment confirmation computes from total_amount.
CompletionSettlesBooking ==
    \A id \in RentalIds, now \in Instants :
        rentals[id].status \in {"booked", "active"} =>
            LET complete == OwnerCompleteRental(CarOwner[rentals[id].car_id], id, now)
                split == FinalizeSplit(rentals[id].total_amount)
            IN  /\ ENABLED (complete /\ rentals'[id].status = "completed")
                /\ ~ENABLED (/\ complete
                             /\ ~(/\ rentals'[id].status = "completed"
                                  /\ rentals'[id].payment_status = "paid"
                                  /\ cars'[rentals[id].car_id].is_available
                                  /\ rentals'[id].owner_final_payout_status =
                                        IF rentals'[id].owner_final_payout_amount > 0
                                        THEN "paid" ELSE "not_required"
                                  /\ rentals[id].payment_status # "paid" =>
                                        /\ rentals'[id].company_commission_amount = split.commission
                                        /\ rentals'[id].owner_payout_amount = split.owner_net
                                        /\ rentals'[id].owner_initial_payout_amount = split.initial_payout
                                        /\ rentals'[id].owner_final_payout_amount = split.final_payout))

\* C31 witness: a booking the owner completed though the renter never paid:
\* the split was computed at completion and the final part released.
CompletedWithoutPayment ==
    \E id \in RentalIds :
        /\ rentals[id].status = "completed"
        /\ rentals[id].owner_response = "pending"
        /\ rentals[id].payment_status = "paid"
        /\ rentals[id].company_commission_amount > 0
        /\ rentals[id].owner_final_payout_amount > 0
        /\ rentals[id].owner_final_payout_status = "paid"
        /\ cars[rentals[id].car_id].is_available

\* What an admin override to paid leaves in a row whose total was
\* total_amount; a part of zero is stored as not_required when
\* zero_part_not_required, and as paid (initial) or pending (final) otherwise.
OverriddenToPaid(row, total_amount, zero_part_not_required) ==
    LET commission == RoundDiv(total_amount * COMPANY_COMMISSION_RATE, 100)
        payout == Max(0, total_amount - commission)
        initial == IF payout <= 0 THEN 0
                   ELSE RoundDiv(payout * OWNER_INITIAL_PAYOUT_RATE, 100)
    IN  /\ row.payment_status = "paid"
        /\ row.company_commission_amount = commission
        /\ row.owner_payout_amount = payout
        /\ row.owner_initial_payout_amount = initial
        /\ row.owner_final_payout_amount = payout - initial
        /\ row.owner_initial_payout_status =
              IF zero_part_not_required /\ initial = 0 THEN "not_required" ELSE "paid"
        /\ row.owner_final_payout_status =
              IF zero_part_not_required /\ payout - initial = 0 THEN "not_required"
              ELSE "pending"

\* The admin's overrides act on every booking, and leave what is said of them.
AdminOverrides(id, now, zero_part_not_required) ==
    /\ ENABLED (AdminUpdatePayment(id, "paid", now) /\ rentals'[id].payment_status = "paid")
    /\ ~ENABLED (/\ AdminUpdatePayment(id, "paid", now)
                 /\ ~OverriddenToPaid(rentals'[id], rentals[id].total_amount,
                                      zero_part_not_required))
    /\ \A new_status \in {"pending", "awaiting_payment"} :
          /\ ENABLED (/\ AdminUpdatePayment(id, new_status, now)
                      /\ rentals'[id].payment_status = new_status)
          /\ ~ENABLED (/\ AdminUpdatePayment(id, new_status, now)
                       /\ ~(/\ rentals'[id].payment_status = new_status
                            /\ PayoutReset(rentals'[id])))

\* C32 as stated: after an override to paid the initial part is always paid
\* and the final part always pending.
AdminOverrideAsStated ==
    \A id \in RentalIds, now \in Instants : AdminOverrides(id, now, FALSE)

\* C32: an admin override to paid stores the split recomputed from
\* total_amount, the initial part paid and the final part pending, each
\* not_required when its amount is zero; an override to pending or
\* awaiting_payment stores zero in the commission and every payout amount and
\* pending in every payout status, whatever the row held. As this holds in
\* every reachable state, the states an override to paid leaves included, an
\* override to paid followed by one away from paid leaves the ledger columns
\* zero and pending.
AdminOverrideRewritesLedger ==
    \A id \in RentalIds, now \in Instants : AdminOverrides(id, now, TRUE)

\* C32 witness: a booking the owner has not answered whose payment status an
\* admin has set to awaiting_payment: no split is left in the row.
AdminOverrodeAwayFromPaid ==
    \E id \in RentalIds :
        /\ rentals[id].status = "booked"
        /\ rentals[id].owner_response = "pending"
        /\ rentals[id].payment_status = "awaiting_payment"
        /\ rentals[id].end_time = 60
        /\ PayoutReset(rentals[id])

\* The columns of a row that hold its payment state and its ledger.
PaymentAndLedger(rental) ==
    <<rental.payment_status, rental.payment_due_at, rental.payment_channel,
      rental.company_commission_amount, rental.owner_payout_amount,
      rental.owner_payout_status, rental.owner_initial_payout_amount,
      rental.owner_initial_payout_status, rental.owner_final_payout_amount,
      rental.owner_final_payout_status>>

\* C33: an extension of a booking whose payment_status is pending or
\* awaiting_payment adds extra_hours x hourly rate to rental_amount, stores
\* rental_amount + delivery_fee as total_amount, and leaves payment_status,
\* payment_due_at, the payment channel and every commission and payout amount
\* and status as they were.
UnpaidExtensionKeepsPaymentState ==
    \A id \in RentalIds, now \in Instants, extra_hours \in ExtraHourInputs :
        (/\ rentals[id].status \in {"booked", "active"}
         /\ rentals[id].payment_status \in {"pending", "awaiting_payment"}
         /\ extra_hours > 0) =>
            ~ENABLED (/\ OwnerExtendRental(CarOwner[rentals[id].car_id], id, extra_hours, now)
                      /\ ~(/\ rentals'[id].rental_amount =
                                 rentals[id].rental_amount
                                     + extra_hours * RatePerHour[rentals[id].car_id]
                           /\ rentals'[id].total_amount =
                                 rentals'[id].rental_amount + rentals[id].delivery_fee
                           /\ PaymentAndLedger(rentals'[id]) = PaymentAndLedger(rentals[id])))

\* The requests of C34, sent by either party of the booking.
PartyRequest(actor, id, now) ==
    \/ \E action \in OwnerActions, counter_text \in FewCounterInputs :
          OwnerRespondRental(actor, id, action, counter_text, "note", "busy", now)
    \/ \E action \in RenterActions : RenterRespondRental(actor, id, action, now)
    \/ RenterConfirmPayment(actor, id, "upi/netbanking", now)
    \/ OwnerStartRental(actor, id)
    \/ OwnerExtendRental(actor, id, 1, now)
    \/ OwnerCompleteRental(actor, id, now)
    \/ CancelRental(actor, id, now)

\* C34: once a booking is completed or cancelled, no request of its owner or
\* its renter (respond, accept_counter, decline_counter, confirm payment,
\* start, extend, complete, cancel) changes its total_amount, owner_response,
\* payment_status or any commission or payout amount or status, or the
\* availability flag of its car.
TerminalBookingIsFrozen ==
    \A id \in RentalIds, actor \in Parties, now \in Instants :
        rentals[id].status \in TerminalStatuses =>
            ~ENABLED (/\ PartyRequest(actor, id, now)
                      /\ \/ rentals'[id].total_amount # rentals[id].total_amount
                         \/ rentals'[id].owner_response # rentals[id].owner_response
                         \/ PaymentAndLedger(rentals'[id]) # PaymentAndLedger(rentals[id])
                         \/ cars'[rentals[id].car_id].is_available
                               # cars[rentals[id].car_id].is_available)

\* C35: a booking whose status is active has payment_status paid, also after
\* the owner extends the trip under way or an admin overrides the payment
\* status.
ActiveMeansPaid ==
    \A id \in RentalIds :
        rentals[id].status = "active" => rentals[id].payment_status = "paid"

\* C36: a booking whose status is active has owner_response accepted: start
\* requires accepted and no request changes an owner_response of accepted.
ActiveMeansAccepted ==
    /\ \A id \in RentalIds :
          rentals[id].status = "active" => rentals[id].owner_response = "accepted"
    /\ \A id \in RentalIds, actor \in Parties, now \in Instants :
          rentals[id].owner_response = "accepted" =>
              ~ENABLED (/\ \/ PartyRequest(actor, id, now)
                           \/ \E new_status \in AdminStatusInputs :
                                 AdminUpdatePayment(id, new_status, now)
                           \/ AdminReleaseOwnerPayout(id, now)
                        /\ rentals'[id].owner_response # "accepted")

\* C36 witness: a trip under way that the owner extended, so that payment is
\* awaited again: the booking is still accepted.
ActiveTripExtended ==
    \E id \in RentalIds :
        /\ rentals[id].status = "active"
        /\ rentals[id].owner_response = "accepted"
        /\ rentals[id].payment_status = "awaiting_payment"
        /\ rentals[id].end_time = 120

\* The split a row holds: the four amounts and the status of the initial part.
SplitOf(rental) ==
    <<rental.company_commission_amount, rental.owner_payout_amount,
      rental.owner_initial_payout_amount, rental.owner_final_payout_amount,
      rental.owner_initial_payout_status>>

\* C37: for every total_amount, the renter's payment confirmation, the
\* owner's completion of a booking not yet paid and the admin's override to
\* paid store the same commission, owner payout, initial payout and final
\* payout, and the same status of the initial payout.
ThreeSplitsAgree ==
    \A id \in RentalIds, now \in Instants :
        (rentals[id].status = "booked" /\ rentals[id].payment_status # "paid"
            /\ rentals[id].owner_response = "accepted") =>
            LET confirm == RenterConfirmPayment(rentals[id].renter_id, id, "upi/netbanking", now)
                complete == OwnerCompleteRental(CarOwner[rentals[id].car_id], id, now)
                override == AdminUpdatePayment(id, "paid", now)
            IN  \E split \in {SplitOf(FinalizeRentalPayment(rentals[id], "upi/netbanking", now))} :
                    /\ ENABLED (confirm /\ SplitOf(rentals'[id]) = split)
                    /\ ENABLED (complete /\ SplitOf(rentals'[id]) = split)
                    /\ ENABLED (override /\ SplitOf(rentals'[id]) = split)
                    /\ ~ENABLED (confirm /\ SplitOf(rentals'[id]) # split)
                    /\ ~ENABLED (complete /\ SplitOf(rentals'[id]) # split)
                    /\ ~ENABLED (override /\ SplitOf(rentals'[id]) # split)

\* C37 witness: a booking of 0.07 settled at its completion: commission 0.01,
\* owner payout 0.06 in parts of 0.01 and 0.05.
SmallTotalSettledAtCompletion ==
    \E id \in RentalIds :
        /\ rentals[id].status = "completed"
        /\ rentals[id].renter_response = ""
        /\ rentals[id].total_amount = 7
        /\ SplitOf(rentals[id]) = <<1, 6, 1, 5, "paid">>

\* C38: in every booking the aggregate owner_payout_status equals
\* owner_final_payout_status, after any sequence of accept, accept_counter,
\* payment confirmation, extension, completion, admin override and admin
\* payout release.
PayoutStatusFollowsFinalPart ==
    \A id \in RentalIds :
        rentals[id].owner_payout_status = rentals[id].owner_final_payout_status

DashboardEntries ==
    UNION {{inflight[i].rentals_data[k] : k \in 1..Len(inflight[i].rentals_data)} :
              i \in {j \in 1..Len(inflight) : "rentals_data" \in DOMAIN inflight[j]}}

\* The part of C40 on the amounts received and still due.
ReceivedPlusBalanceIsTakeHome ==
    \A entry \in DashboardEntries :
        entry.rental.payment_status = "paid" =>
            entry.host_amount_received + entry.host_amount_balance = entry.host_net_take_home

\* C40: in the owner's dashboard, for every booking with payment_status paid
\* the owner take-home shown equals the ledger's owner_payout_amount, and the
\* amount received shown plus the balance shown equals that take-home.
DashboardShowsLedgerPayout ==
    /\ \A entry \in DashboardEntries :
          entry.rental.payment_status = "paid" =>
              entry.host_net_take_home = entry.rental.owner_payout_amount
    /\ ReceivedPlusBalanceIsTakeHome
====
